---------------------------- MODULE Spec2Model ----------------------------
(***************************************************************************)
(* A model of the metrics engine of mcp-qualytics: the tree walker, the    *)
(* Halstead, complexity, logical-line and maintainability calculators,     *)
(* the function analyzer, the file aggregator (analyzeFile), the           *)
(* inheritance-depth relaxation and the directory handler that runs one    *)
(* analysis task per file.                                                 *)
(*                                                                         *)
(* Every group of variables belongs to one part of the engine; each        *)
(* specification drives one part and leaves the others idle.               *)
(*                                                                         *)
(* Conventions.  Numbers that are not integers (volume, maintainability    *)
(* index, average complexity) are kept in thousandths, logarithms coming   *)
(* from tables.  The trees the analyses run on are the parser's: parse()   *)
(* gives the nodes no `parent` property; SpecWalk drives the walker on     *)
(* trees with and without that back-reference.                             *)
(***************************************************************************)
EXTENDS Integers, Sequences, FiniteSets, TLC

(***************************************************************************)
(* Bounds of the model.                                                    *)
(***************************************************************************)
\* Number of named type declarations in one file, and of identifiers they use.
MaxTypes == 4
\* Total number of extends / implements references in one file.
MaxEdges == 3
\* Number of nodes of a syntax tree.
MaxNodes == 4

VARIABLES
  \* ---- the syntax tree handed to the engine (owned by the parser) ----
  ast,               \* the tree of the call in progress (see the node model below)
  \* ---- the tree walker (traverseAST / traverse) ----
  wstack,            \* the recursion: frames [node, k], k keys of node already done
  visits,            \* the nodes the callback was called on, in call order
  wpc,               \* "walk" | "done" | "overflow" | "idle"
  \* ---- the Halstead calculator singleton ----
  halsteadData,      \* its `data`: operators, operands and the two counts
  \* ---- analyzeFunctions ----
  functions,         \* the units pushed so far, then the sorted result
  processedNodes,    \* the nodes a unit was emitted for
  fidx,              \* position of the traversal in the walk order
  fpc,               \* "traverse" | "done" | "idle"
  \* ---- analyzeFile ----
  code,              \* the source text: [ok, tree], what the parser makes of it
  analysis,          \* the FileAnalysis returned
  apc,               \* "parse" | "functions" | "done" | "idle"
  \* ---- a client calling the calculators one after the other ----
  callSubject,       \* the tree whose results are recorded
  callOther,         \* another tree the calculators are called on
  callResults,       \* calculator -> the results its calls on callSubject returned
  callPhase,         \* 0; 1 subject measured; 2 then the other tree; 3 then the subject again
  \* ---- analyzeDirectory ----
  dirFiles,          \* the source texts of the files found, in order
  taskPc,            \* per file: "pending" | "reading" | "done"
  dirResults,        \* per file: the FileAnalysis of its task
  dirPc,             \* "map" | "await" | "resolved" | "idle"
  \* ---- calculateInheritanceDepth (metrics/index.ts) ----
  decls,             \* the named class / interface declarations, in traversal order
  inheritanceMap,    \* Map<string, number>: type name -> depth
  inheritanceEdges,  \* [child, parent][] in push order
  changed,           \* the do-while flag
  edgeIdx,           \* position of the for-of loop in inheritanceEdges
  passes,            \* number of do-while passes started
  dpc,               \* "collect" | "relax" | "done" | "idle"
  depthResult,       \* the returned maximum depth
  \* ---- one countLogicalLinesOfCode(node) call (FunctionAnalyzer) ----
  locNode,           \* the node the count is taken over
  lloc,              \* its `loc`: `let loc = 0`, then the running total
  locProcessed,      \* its local `processedNodes`
  locIdx,            \* position of the traversal in the walk order
  locPc,             \* "traverse" | "done" | "idle"
  \* ---- one calculateMaintainabilityIndex call ----
  miData,            \* the Halstead accumulator the volume argument came from
  miComplexity,      \* the cyclomaticComplexity argument
  miLines,           \* the linesOfCode argument
  miResult,          \* the value returned (thousandths), -1 before the return
  miPc,              \* "call" | "done" | "idle"
  \* ---- a subtree measured by the Halstead calculator, before and after ----
  \* ---- a node is added to it ----
  growRoot,          \* the root of the subtree measured
  growBefore,        \* [data, volume] of process() before the node is added
  growAfter,         \* [data, volume] of process() after it
  growPc,            \* "before" | "add" | "after" | "done" | "idle"
  \* ---- one call of the typescript_analyze_text / _file tool ----
  args,              \* the arguments of the call: [tool, format, code, readable, include_source]
  validatedArgs,     \* the arguments the schema returned, [format, include_source]
  toolResult,        \* what the handler resolved to: [isError, content]
  toolPc,            \* "validate" | "read" | "analyze" | "catch" | "done" | "idle"
  \* ---- one call of the typescript_analyze_directory tool ----
  entries,           \* the files below the directory: [ts, matches]
  gitignore,         \* whether the directory has a readable .gitignore
  ignore_patterns,   \* whether the call gives ignore_patterns (a non-empty array)
  ig,                \* the ignore instance: the pattern sets added to it
  scanIdx,           \* position of the scan in entries
  files,             \* the entries pushed by the scan, then analysed
  findPc,            \* "ignore" | "scan" | "analyze" | "done" | "idle"
  \* ---- one CyclomaticComplexityCalculator.process(node) call ----
  ccNode,            \* the node the complexity is taken over
  ccTotal,           \* its `complexity`: `let complexity = 1`, then the running total
  ccIdx,             \* position of the traversal in the walk order
  ccPc,              \* "traverse" | "done" | "idle"
  \* ---- one HalsteadMetricsCalculator.process(node) call, step by step ----
  hNode,             \* the node the pass is taken over
  hIdx,              \* position of the traversal in the walk order
  hVolume,           \* the volume returned (thousandths), -1 before the return
  hPc,               \* "reset" | "gather" | "done" | "idle"
  \* ---- one tools/call request in the server's request handler ----
  reqName,           \* request.params.name
  srvResponse,       \* what the request handler gave the server: [thrown, isError, text]
  srvPc,             \* "lookup" | "handler" | "done" | "idle"
  \* ---- process start and shutdown (server.ts startup / shutdown) ----
  shuttingDown,      \* the module flag `shuttingDown`
  cleanupHandlers,   \* the module set `cleanupHandlers`
  invoked,           \* handler -> how many times it has been called
  handlerPromise,    \* handler -> "none" | "pending" | "resolved" | "rejected"
  awaiting,          \* a call of shutdown is suspended at `await Promise.all(...)`
  exitCode,          \* Running while the process lives, then its exit code
  startPc,           \* "notStarted" | "creating" | "connecting" | "connected" | "failed"
  firstReason,       \* the reason the flag was set with, "" before
  triggerCount       \* shutdown triggers delivered so far

depthVars == <<decls, inheritanceMap, inheritanceEdges, changed, edgeIdx,
               passes, dpc, depthResult>>

treeVars == <<ast>>
walkVars == <<wstack, visits, wpc>>

calcVars == <<halsteadData>>
funVars == <<functions, processedNodes, fidx, fpc>>
fileVars == <<code, analysis, apc>>

callVars == <<callSubject, callOther, callResults, callPhase>>
dirVars == <<dirFiles, taskPc, dirResults, dirPc>>
locVars == <<locNode, lloc, locProcessed, locIdx, locPc>>
indexVars == <<miData, miComplexity, miLines, miResult, miPc>>
growVars == <<growRoot, growBefore, growAfter, growPc>>
toolVars == <<args, validatedArgs, toolResult, toolPc>>
findVars == <<entries, gitignore, ignore_patterns, ig, scanIdx, files, findPc>>
complexityVars == <<ccNode, ccTotal, ccIdx, ccPc>>
passVars == <<hNode, hIdx, hVolume, hPc>>
serverVars == <<reqName, srvResponse, srvPc>>
shutdownVars ==
  <<shuttingDown, cleanupHandlers, invoked, handlerPromise, awaiting, exitCode, startPc,
    firstReason, triggerCount>>

vars == <<treeVars, walkVars, calcVars, funVars, fileVars, callVars, dirVars, depthVars,
          locVars, indexVars, growVars, toolVars, findVars, complexityVars, passVars, serverVars, shutdownVars>>

\* What the actions of one part leave alone.
DepthFrame ==
  UNCHANGED <<treeVars, walkVars, calcVars, funVars, fileVars, callVars, dirVars, locVars, indexVars, growVars, toolVars, findVars, complexityVars, passVars, serverVars, shutdownVars>>
WalkFrame == UNCHANGED <<depthVars, calcVars, funVars, fileVars, callVars, dirVars, locVars, indexVars, growVars, toolVars, findVars, complexityVars, passVars, serverVars, shutdownVars>>
AnalysisFrame == UNCHANGED <<walkVars, depthVars, callVars, dirVars, locVars, indexVars, growVars, toolVars, findVars, complexityVars, passVars, serverVars, shutdownVars>>
CallsFrame == UNCHANGED <<treeVars, walkVars, funVars, fileVars, depthVars, dirVars, locVars, indexVars, growVars, toolVars, findVars, complexityVars, passVars, serverVars, shutdownVars>>
DirFrame == UNCHANGED <<treeVars, walkVars, funVars, fileVars, depthVars, callVars, locVars, indexVars, growVars, toolVars, findVars, complexityVars, passVars, serverVars, shutdownVars>>
ServerFrame ==
  UNCHANGED <<treeVars, walkVars, funVars, fileVars, depthVars, callVars, dirVars, locVars,
              indexVars, growVars, findVars, complexityVars, passVars, shutdownVars>>
HalsteadFrame ==
  UNCHANGED <<walkVars, funVars, fileVars, depthVars, callVars, dirVars, locVars, indexVars,
              growVars, toolVars, findVars, complexityVars, serverVars, shutdownVars>>
ComplexityFrame ==
  UNCHANGED <<walkVars, calcVars, funVars, fileVars, depthVars, callVars, dirVars, locVars,
              indexVars, growVars, toolVars, findVars, passVars, serverVars, shutdownVars>>
FindFrame ==
  UNCHANGED <<treeVars, walkVars, calcVars, funVars, fileVars, depthVars, callVars, dirVars,
              locVars, indexVars, growVars, toolVars, complexityVars, passVars, serverVars, shutdownVars>>
ToolFrame ==
  UNCHANGED <<treeVars, walkVars, funVars, fileVars, depthVars, callVars, dirVars, locVars,
              indexVars, growVars, findVars, complexityVars, passVars, serverVars, shutdownVars>>
GrowFrame ==
  UNCHANGED <<walkVars, funVars, fileVars, depthVars, callVars, dirVars, locVars, indexVars, toolVars, findVars, complexityVars, passVars, serverVars, shutdownVars>>
IndexFrame ==
  UNCHANGED <<treeVars, walkVars, calcVars, funVars, fileVars, depthVars, callVars, dirVars,
              locVars, growVars, toolVars, findVars, complexityVars, passVars, serverVars, shutdownVars>>
ShutdownFrame ==
  UNCHANGED <<treeVars, walkVars, calcVars, funVars, fileVars, depthVars, callVars, dirVars,
              locVars, indexVars, growVars, toolVars, findVars, complexityVars, passVars,
              serverVars>>
LinesFrame ==
  UNCHANGED <<walkVars, calcVars, funVars, fileVars, depthVars, callVars, dirVars, indexVars, growVars, toolVars, findVars, complexityVars, passVars, serverVars, shutdownVars>>

(***************************************************************************)
(* Small helpers.                                                          *)
(***************************************************************************)
Max2(a, b) == IF a >= b THEN a ELSE b

RECURSIVE SetMax(_)
SetMax(S) ==
  IF S = {} THEN 0
  ELSE LET x == CHOOSE y \in S : TRUE IN Max2(x, SetMax(S \ {x}))

Range(s) == {s[i] : i \in 1..Len(s)}

SeqsUpTo(S, n) == UNION {[1..k -> S] : k \in 0..n}

(***************************************************************************)
(* The node model.  A tree has nodes 1..n, node 1 the root; parent[i] < i  *)
(* is the node whose field holds node i, and the children of a node are    *)
(* met by `for (const key in node)` in ascending order of their numbers.   *)
(* type[i] is the node's type tag, line[i] its loc.start.line, tok[i] the  *)
(* node's own token: the operator of an operator expression, the name of   *)
(* an Identifier, String(value) of a Literal, "default" for a SwitchCase   *)
(* whose test is null, "" otherwise.  The distinguished field of a node    *)
(* (value of a MethodDefinition, callee of a CallExpression, property of   *)
(* a MemberExpression) is its last child.                                  *)
(* parentLinks says whether the tree builder gave every node but the root  *)
(* an own enumerable `parent` property (the back-reference getFunctionName *)
(* reads); hasLoc whether the nodes carry `loc` (parse option loc).        *)
(***************************************************************************)
ParentVecs(n) ==
  {p \in [1..n -> 0..(n - 1)] : p[1] = 0 /\ \A i \in 2..n : p[i] \in 1..(i - 1)}

NoTree == [n |-> 0, parent |-> <<>>, type |-> <<>>, line |-> <<>>, tok |-> <<>>,
           parentLinks |-> FALSE, hasLoc |-> TRUE]

Nodes(t) == 1..t.n

ChildSet(t, x) == {i \in Nodes(t) : t.parent[i] = x}

\* The children of x in key order.
Children(t, x) == SelectSeq([i \in 1..t.n |-> i], LAMBDA i : t.parent[i] = x)

RECURSIVE Descendants(_, _)
Descendants(t, S) ==
  LET next == UNION {ChildSet(t, x) : x \in S} \ S
  IN IF next = {} THEN S ELSE Descendants(t, S \cup next)

\* The nodes of the subtree rooted at x.
Subtree(t, x) == Descendants(t, {x})

\* The node-valued entries `for (const key in node)` meets under x, in key
\* order: the child fields and, when the tree carries back-references, the
\* `parent` property (assigned after the node is built, so the last key).
Keys(t, x) ==
  Children(t, x) \o (IF t.parentLinks /\ t.parent[x] # 0 THEN <<t.parent[x]>> ELSE <<>>)

RECURSIVE PreOrderFrom(_, _)
RECURSIVE PreOrderAll(_, _)
\* callback(node); then the recursive calls on the children, in key order.
PreOrderFrom(t, x) == <<x>> \o PreOrderAll(t, Children(t, x))
PreOrderAll(t, xs) ==
  IF xs = <<>> THEN <<>> ELSE PreOrderFrom(t, Head(xs)) \o PreOrderAll(t, Tail(xs))

\* What the parser guarantees of the trees it builds: the value of a
\* MethodDefinition is a FunctionExpression, an Identifier or a Literal has
\* no node below it, a node does not start before the node that holds it,
\* and the root is the Program.
WellFormed(t) ==
  /\ t.type[1] = "Program"
  /\ t.line[1] = 1
  /\ \A x \in 2..t.n :
       /\ t.type[x] # "Program"
       /\ t.type[t.parent[x]] \notin {"Identifier", "Literal"}
       /\ t.line[x] >= t.line[t.parent[x]]
  /\ \A x \in 1..t.n :
       t.type[x] = "MethodDefinition" =>
         /\ ChildSet(t, x) # {}
         /\ t.type[Children(t, x)[Len(Children(t, x))]] = "FunctionExpression"

TreeIdle == ast = NoTree

(***************************************************************************)
(* The tree walker: traverseAST (ast-utils), FunctionAnalyzer.traverseAST  *)
(* and FileMetricsAnalyzer.traverse are the same recursion.                *)
(***************************************************************************)
\* The depth at which the engine's recursion overflows the call stack (a
\* RangeError); no tree of the model is that deep.
MaxStack == MaxNodes + 2

WalkIdle ==
  /\ wstack = <<>>
  /\ visits = <<>>
  /\ wpc = "idle"

\* walk(root, visit) is called on the root of a tree.
WalkInit ==
  /\ \E n \in 1..MaxNodes : \E p \in ParentVecs(n) : \E b \in BOOLEAN :
       ast = [n |-> n, parent |-> p, type |-> [i \in 1..n |-> "Node"],
              line |-> [i \in 1..n |-> 1], tok |-> [i \in 1..n |-> ""],
              parentLinks |-> b, hasLoc |-> TRUE]
  /\ wstack = <<[node |-> 1, k |-> 0]>>
  /\ visits = <<1>>
  /\ wpc = "walk"

Top == wstack[Len(wstack)]

\* The loop meets a key that holds a node (or an array item that is one)
\* and calls itself on it: the callback runs first.
WalkDescend ==
  /\ wpc = "walk"
  /\ Top.k < Len(Keys(ast, Top.node))
  /\ Len(wstack) < MaxStack
  /\ LET child == Keys(ast, Top.node)[Top.k + 1]
     IN /\ visits' = Append(visits, child)
        /\ wstack' = Append([wstack EXCEPT ![Len(wstack)].k = @ + 1],
                            [node |-> child, k |-> 0])
  /\ UNCHANGED <<wpc, ast>>
  /\ WalkFrame

\* The recursion is as deep as the call stack allows: the next call throws.
WalkOverflow ==
  /\ wpc = "walk"
  /\ Top.k < Len(Keys(ast, Top.node))
  /\ Len(wstack) = MaxStack
  /\ wpc' = "overflow"
  /\ UNCHANGED <<wstack, visits, ast>>
  /\ WalkFrame

\* The loop over the keys of a node is over: the call returns.
WalkReturn ==
  /\ wpc = "walk"
  /\ Top.k = Len(Keys(ast, Top.node))
  /\ wstack' = SubSeq(wstack, 1, Len(wstack) - 1)
  /\ wpc' = IF Len(wstack) = 1 THEN "done" ELSE "walk"
  /\ UNCHANGED <<visits, ast>>
  /\ WalkFrame

WalkNext == WalkDescend \/ WalkOverflow \/ WalkReturn

(***************************************************************************)
(* The calculators.  On the trees the parser builds (no `parent` property) *)
(* the walker calls the callback on the nodes of the subtree in pre-order. *)
(***************************************************************************)
Walked(t, x) == PreOrderFrom(t, x)

LastChild(t, x) == Children(t, x)[Len(Children(t, x))]

\* ---- CyclomaticComplexityCalculator ----
CONTROL_FLOW_NODES ==
  {"IfStatement", "ForStatement", "ForInStatement", "ForOfStatement",
   "WhileStatement", "DoWhileStatement", "CatchClause", "ConditionalExpression",
   "TryStatement", "ThrowStatement"}

LOGICAL_OPERATORS == {"&&", "||", "??"}

\* A case counted whatever its test.
isSwitchCaseAny(t, y) == t.type[y] = "SwitchCase"

\* node.type === SwitchCase && node.test !== null
isSwitchCase(t, y) == t.type[y] = "SwitchCase" /\ t.tok[y] # "default"

isLogicalExpression(t, y) ==
  t.type[y] = "LogicalExpression" /\ t.tok[y] \in LOGICAL_OPERATORS

isComplexityIncreasingNode(t, y) ==
  \/ t.type[y] \in CONTROL_FLOW_NODES
  \/ isSwitchCase(t, y)
  \/ isLogicalExpression(t, y)

BaseComplexityNone == 1 - 1
\* let complexity = 1; // Base complexity
BaseComplexity == 1

\* A traversal that stops below the children of the node.
ComplexityProcessShallow(t, x) ==
  BaseComplexity +
    Cardinality({y \in {x} \cup ChildSet(t, x) : isComplexityIncreasingNode(t, y)})

\* process(ast): the base and one for every visit of an increasing node.
ComplexityProcess(t, x) ==
  LET w == Walked(t, x)
  IN BaseComplexity + Cardinality({i \in 1..Len(w) : isComplexityIncreasingNode(t, w[i])})

\* ---- HalsteadMetricsCalculator (a singleton: `data` outlives a call) ----
EmptyData == [operators |-> {}, operands |-> {}, operatorCount |-> 0, operandCount |-> 0]

resetDataSkipped(d) == d
resetData(d) == EmptyData

OperatorTypes ==
  {"BinaryExpression", "LogicalExpression", "AssignmentExpression",
   "UpdateExpression", "UnaryExpression"}

\* An operator added without operatorCount++.
AddOperatorUncounted(d, op) == [d EXCEPT !.operators = @ \cup {op}]

AddOperator(d, op) ==
  [d EXCEPT !.operators = @ \cup {op}, !.operatorCount = @ + 1]

\* An operand added without operandCount++.
AddOperandUncounted(d, name) == [d EXCEPT !.operands = @ \cup {name}]

AddOperand(d, name) ==
  [d EXCEPT !.operands = @ \cup {name}, !.operandCount = @ + 1]

\* if (node.property.type === Identifier) the property name is an operand.
processMemberExpression(d, t, y) ==
  IF Children(t, y) # <<>> /\ t.type[LastChild(t, y)] = "Identifier"
    THEN AddOperand(d, t.tok[LastChild(t, y)]) ELSE d

\* A call counted as the operator `<token of the callee>()` whatever its callee.
processCallExpressionAnyCallee(d, t, y) ==
  IF Children(t, y) # <<>>
    THEN AddOperator(d, t.tok[LastChild(t, y)] \o "()") ELSE d

\* if (node.callee.type === Identifier) `${node.callee.name}()` is an operator.
processCallExpression(d, t, y) ==
  IF Children(t, y) # <<>> /\ t.type[LastChild(t, y)] = "Identifier"
    THEN AddOperator(d, t.tok[LastChild(t, y)] \o "()") ELSE d

\* The callback of gatherMetrics on one node.
GatherNode(d, t, y) ==
  LET ty == t.type[y]
  IN CASE ty \in OperatorTypes -> AddOperator(d, t.tok[y])
       [] ty \in {"Identifier", "Literal"} -> AddOperand(d, t.tok[y])
       [] ty = "MemberExpression" -> processMemberExpression(d, t, y)
       [] ty = "CallExpression" -> processCallExpression(d, t, y)
       [] ty = "ConditionalExpression" -> AddOperator(d, "?:")
       [] ty = "NewExpression" -> AddOperator(d, "new")
       [] OTHER -> d

RECURSIVE GatherSeq(_, _, _)
GatherSeq(d, t, w) ==
  IF w = <<>> THEN d ELSE GatherSeq(GatherNode(d, t, Head(w)), t, Tail(w))

gatherMetrics(d, t, x) == GatherSeq(d, t, Walked(t, x))

\* Numbers that are not integers are kept in thousandths, rounded.
\* 1000 * log2(v), v = 1..16.
Log2Milli ==
  <<0, 1000, 1585, 2000, 2322, 2585, 2807, 3000, 3170, 3322, 3459, 3585, 3700,
    3807, 3907, 4000>>

\* vocabulary > 0 ? length * Math.log2(vocabulary) : 0, in thousandths.
calculateVolume(d) ==
  LET vocabulary == Cardinality(d.operators) + Cardinality(d.operands)
      length == d.operatorCount + d.operandCount
  IN IF vocabulary > 0 THEN length * Log2Milli[vocabulary] ELSE 0

\* process(ast): the accumulator after the call and the volume returned.
HalsteadProcess(d, t, x) ==
  LET d2 == gatherMetrics(resetData(d), t, x)
  IN [data |-> d2, volume |-> calculateVolume(d2)]

\* ---- logical lines of code (FunctionAnalyzer) ----
executableTypes ==
  {"ExpressionStatement", "ReturnStatement", "ThrowStatement", "BreakStatement",
   "ContinueStatement", "DebuggerStatement", "DoWhileStatement", "ForStatement",
   "ForInStatement", "ForOfStatement", "IfStatement", "SwitchCase",
   "SwitchStatement", "TryStatement", "WhileStatement", "WithStatement",
   "CallExpression", "AssignmentExpression", "BinaryExpression",
   "LogicalExpression", "ConditionalExpression", "NewExpression",
   "YieldExpression", "AwaitExpression", "SpreadElement", "ArrayExpression",
   "VariableDeclaration", "FunctionDeclaration", "ClassDeclaration",
   "TSInterfaceDeclaration", "TSTypeAliasDeclaration", "TSEnumDeclaration",
   "TSModuleDeclaration", "ExportDefaultDeclaration", "ExportNamedDeclaration",
   "ExportAllDeclaration", "ImportDeclaration", "MethodDefinition",
   "PropertyDefinition", "TSParameterProperty"}

isExecutableLine(t, y) == t.type[y] \in executableTypes

\* The count without the node it is taken over.
countLogicalLinesBelow(t, x) ==
  Cardinality({y \in Range(Walked(t, x)) \ {x} : isExecutableLine(t, y)})

\* One for every distinct visited node that is executable (processedNodes
\* keeps a node from counting twice).
countLogicalLinesOfCode(t, x) ==
  Cardinality({y \in Range(Walked(t, x)) : isExecutableLine(t, y)})

\* ---- calculateMaintainabilityIndex ----
\* 1000 * ln(n), n = 1..16.
LnMilli ==
  <<0, 693, 1099, 1386, 1609, 1792, 1946, 2079, 2197, 2303, 2398, 2485, 2565,
    2639, 2708, 2773>>

\* 1000 * ln(log2(v)), v = 2..16 (0 at v = 1, where the volume is 0).
LnLog2Milli ==
  <<0, 0, 461, 693, 842, 950, 1032, 1099, 1154, 1201, 1241, 1277, 1308, 1337,
    1363, 1386>>

\* safeLog(volume) in thousandths, volume = length * log2(vocabulary).
VolumeLog(d) ==
  LET vocabulary == Cardinality(d.operators) + Cardinality(d.operands)
      length == d.operatorCount + d.operandCount
  IN IF vocabulary > 1 /\ length > 0 THEN LnMilli[length] + LnLog2Milli[vocabulary] ELSE 0

safeLog(n) == IF n > 0 THEN LnMilli[n] ELSE 0

\* The index without Math.max(0, ...).
calculateMaintainabilityIndexNoClamp(d, cyclomaticComplexity, linesOfCode) ==
  LET rawMI == 1710000 - 52 * VolumeLog(d) - 2300 * cyclomaticComplexity
                 - 162 * safeLog(linesOfCode)
  IN (rawMI * 10) \div 171

\* The index without the complexity term.
calculateMaintainabilityIndexNoComplexity(d, cyclomaticComplexity, linesOfCode) ==
  LET rawMI == 1710000 - 52 * VolumeLog(d) - 162 * safeLog(linesOfCode)
  IN Max2(0, (rawMI * 10) \div 171)

\* max(0, (171 - 5.2 ln V - 0.23 CC - 16.2 ln LOC) * 100 / 171), in thousandths
\* (the raw index is computed in ten-thousandths).
calculateMaintainabilityIndex(d, cyclomaticComplexity, linesOfCode) ==
  LET rawMI == 1710000 - 52 * VolumeLog(d) - 2300 * cyclomaticComplexity
                 - 162 * safeLog(linesOfCode)
  IN Max2(0, (rawMI * 10) \div 171)

(***************************************************************************)
(* FunctionAnalyzer                                                        *)
(***************************************************************************)
\* a / b to the nearest thousandth.
DivMilli(a, b) == (2000 * a + b) \div (2 * b)

isFunctionLike(t, x) ==
  t.type[x] \in {"FunctionDeclaration", "FunctionExpression",
                 "ArrowFunctionExpression", "MethodDefinition"}

getFunctionType(t, x) ==
  CASE t.type[x] \in {"FunctionDeclaration", "FunctionExpression"} -> "function"
    [] t.type[x] = "MethodDefinition" -> "method"
    [] t.type[x] = "ArrowFunctionExpression" -> "arrow"
    [] OTHER -> "function"

\* loc.end.line: a node ends on the last line a node of its subtree starts on.
EndLine(t, x) == SetMax({t.line[y] : y \in Subtree(t, x)})

\* calculate(node): the metrics record, and the accumulator the Halstead
\* singleton is left with.
calculate(d, t, x) ==
  LET h == HalsteadProcess(d, t, x)
      complexity == ComplexityProcess(t, x)
      loc == countLogicalLinesOfCode(t, x)
  IN [data |-> h.data,
      volume |-> h.volume,
      metrics |-> [linesOfCode |-> loc,
                   cyclomaticComplexity |-> complexity,
                   maintainabilityIndex |->
                     calculateMaintainabilityIndex(h.data, complexity, loc),
                   averageMethodComplexity |-> 1000 * complexity,
                   methodCount |-> 1,
                   classCount |-> 0,
                   depthOfInheritance |-> 0]]

\* The `id` of a function declaration or variable declarator and the `key`
\* of a method definition is the first child of the node (its value, init or
\* body the last); 0 when the node has no child.
FirstChild(t, x) == IF ChildSet(t, x) = {} THEN 0 ELSE Children(t, x)[1]

\* node.parent: undefined (0) unless the tree builder set back-references.
ParentProperty(t, x) == IF t.parentLinks THEN t.parent[x] ELSE 0

\* key.type === Identifier ? key.name : "<computed>"
KeyName(t, x) ==
  IF FirstChild(t, x) # 0 /\ t.type[FirstChild(t, x)] = "Identifier"
    THEN t.tok[FirstChild(t, x)] ELSE "<computed>"

getFunctionName(t, x) ==
  CASE t.type[x] = "FunctionDeclaration" ->
         IF FirstChild(t, x) # 0 /\ t.type[FirstChild(t, x)] = "Identifier"
              /\ t.tok[FirstChild(t, x)] # ""
           THEN t.tok[FirstChild(t, x)] ELSE "<anonymous>"
    [] t.type[x] = "MethodDefinition" -> KeyName(t, x)
    [] t.type[x] \in {"ArrowFunctionExpression", "FunctionExpression"} ->
         LET up == ParentProperty(t, x)
         IN IF up # 0 /\ t.type[up] = "VariableDeclarator"
                 /\ t.type[FirstChild(t, up)] = "Identifier"
              THEN t.tok[FirstChild(t, up)]
            ELSE IF up # 0 /\ t.type[up] = "MethodDefinition" THEN KeyName(t, up)
            ELSE IF t.type[x] = "ArrowFunctionExpression" THEN "<arrow>"
            ELSE "<anonymous>"
    [] OTHER -> "<unknown>"

\* A unit; `node` is the node it was emitted for (the engine's record has no
\* such field: it is kept to tell units apart) and `on` the node measured.
Unit(t, x, kind, on, m) ==
  [name |-> getFunctionName(t, x), type |-> kind, startLine |-> t.line[x], endLine |-> EndLine(t, x),
   metrics |-> m, node |-> x, on |-> on]

MarkMethodOnly(x, v) == {x}
\* processedNodes.add(methodNode); processedNodes.add(methodNode.value)
MarkMethod(x, v) == {x, v}

\* processFunction(node), on acc = [functions, processedNodes, data].
processFunction(acc, t, x) ==
  IF ~t.hasLoc \/ x \in acc.processedNodes THEN acc
  ELSE IF t.type[x] = "MethodDefinition" THEN
    LET v == LastChild(t, x)
        c == calculate(acc.data, t, v)
    IN [functions |-> Append(acc.functions, Unit(t, x, "method", v, c.metrics)),
        processedNodes |-> acc.processedNodes \cup MarkMethod(x, v),
        data |-> c.data]
  ELSE IF isFunctionLike(t, x) THEN
    LET c == calculate(acc.data, t, x)
    IN [functions |-> Append(acc.functions,
                             Unit(t, x, getFunctionType(t, x), x, c.metrics)),
        processedNodes |-> acc.processedNodes \cup {x},
        data |-> c.data]
  ELSE acc

\* functions.sort((a, b) => a.startLine - b.startLine): Array.prototype.sort
\* is stable.  Insertion after the units that are not later.
InsertUnitBefore(sorted, u) ==
  LET k == Cardinality({i \in 1..Len(sorted) : sorted[i].startLine < u.startLine})
  IN SubSeq(sorted, 1, k) \o <<u>> \o SubSeq(sorted, k + 1, Len(sorted))

InsertUnit(sorted, u) ==
  LET k == Cardinality({i \in 1..Len(sorted) : sorted[i].startLine <= u.startLine})
  IN SubSeq(sorted, 1, k) \o <<u>> \o SubSeq(sorted, k + 1, Len(sorted))

RECURSIVE SortInto(_, _)
SortInto(sorted, fs) ==
  IF fs = <<>> THEN sorted ELSE SortInto(InsertUnit(sorted, Head(fs)), Tail(fs))

SortByStartLine(fs) == SortInto(<<>>, fs)

RECURSIVE ProcessSeq(_, _, _)
ProcessSeq(acc, t, w) ==
  IF w = <<>> THEN acc ELSE ProcessSeq(processFunction(acc, t, Head(w)), t, Tail(w))

\* analyzeFunctions(ast) as one call: the list returned and the accumulator
\* the Halstead singleton is left with.
analyzeFunctions(d, t) ==
  LET acc == ProcessSeq([functions |-> <<>>, processedNodes |-> {}, data |-> d],
                        t, Walked(t, 1))
  IN [functions |-> SortByStartLine(acc.functions), data |-> acc.data]

CalcIdle == halsteadData = EmptyData

FunIdle ==
  /\ functions = <<>>
  /\ processedNodes = {}
  /\ fidx = 0
  /\ fpc = "idle"

\* On a tree whose nodes carry the `parent` back-reference every walker goes
\* from a node to its parent and back until the call stack is exhausted
\* (see the tree walker): the traversal of a tree of two nodes or more
\* throws a RangeError.
Overflows(t) == t.parentLinks /\ t.n > 1

\* analyzeFunctions(ast) is entered: the traversal is about to start.
FunStart ==
  /\ functions = <<>>
  /\ processedNodes = {}
  /\ fidx = 1
  /\ fpc = "traverse"

\* The traversal calls processFunction on the next node.
ProcessFunction ==
  /\ fpc = "traverse"
  /\ ~Overflows(ast)
  /\ fidx <= Len(Walked(ast, 1))
  /\ LET acc == processFunction([functions |-> functions,
                                  processedNodes |-> processedNodes,
                                  data |-> halsteadData],
                                 ast, Walked(ast, 1)[fidx])
     IN /\ functions' = acc.functions
        /\ processedNodes' = acc.processedNodes
        /\ halsteadData' = acc.data
  /\ fidx' = fidx + 1
  /\ UNCHANGED <<ast, fpc, fileVars>>
  /\ AnalysisFrame

\* The traversal is over: the list is sorted and returned.
SortFunctions ==
  /\ fpc = "traverse"
  /\ ~Overflows(ast)
  /\ fidx > Len(Walked(ast, 1))
  /\ functions' = SortByStartLine(functions)
  /\ fpc' = "done"
  /\ UNCHANGED <<ast, halsteadData, processedNodes, fidx, fileVars>>
  /\ AnalysisFrame

\* The traversal throws: analyzeFunctions returns nothing.
AnalyzeOverflows ==
  /\ fpc = "traverse"
  /\ Overflows(ast)
  /\ fpc' = "overflow"
  /\ UNCHANGED <<ast, halsteadData, functions, processedNodes, fidx, fileVars>>
  /\ AnalysisFrame

FileIdle ==
  /\ code = [ok |-> FALSE, tree |-> NoTree]
  /\ analysis = [fileMetrics |-> <<>>, functions |-> <<>>]
  /\ apc = "idle"

\* The node types of the trees analyzeFunctions is driven on.
FunctionKinds ==
  {"FunctionDeclaration", "FunctionExpression", "ArrowFunctionExpression",
   "MethodDefinition", "BlockStatement"}

\* The lines the nodes of these trees start on.
LineNumbers == {1, 2, 3}

\* A tree on one line, from the parents, types and tokens of its nodes.
OneLineTree(p, ty, tk, links) ==
  [n |-> Len(p), parent |-> p, type |-> ty, line |-> [i \in 1..Len(p) |-> 1],
   tok |-> tk, parentLinks |-> links, hasLoc |-> TRUE]

\* const multiply = (a, b) => a * b;   (test/fixtures/functions.ts)
\* Program > VariableDeclaration > VariableDeclarator > id(4), arrow(5) >
\* a, b, a * b.
MultiplyArrow(links) ==
  OneLineTree(<<0, 1, 2, 3, 3, 5, 5, 5, 8, 8>>,
              <<"Program", "VariableDeclaration", "VariableDeclarator", "Identifier",
                "ArrowFunctionExpression", "Identifier", "Identifier",
                "BinaryExpression", "Identifier", "Identifier">>,
              <<"", "", "", "multiply", "", "a", "b", "*", "a", "b">>, links)

\* const h = function(){};
AssignedFunction(links) ==
  OneLineTree(<<0, 1, 2, 3, 3, 5>>,
              <<"Program", "VariableDeclaration", "VariableDeclarator", "Identifier",
                "FunctionExpression", "BlockStatement">>,
              <<"", "", "", "h", "", "">>, links)

\* run(function(){}, () => {});   the callee is the last child of the call.
CallbackFunctions(links) ==
  OneLineTree(<<0, 1, 2, 3, 4, 3, 6, 3>>,
              <<"Program", "ExpressionStatement", "CallExpression",
                "FunctionExpression", "BlockStatement", "ArrowFunctionExpression",
                "BlockStatement", "Identifier">>,
              <<"", "", "", "", "", "", "", "run">>, links)

\* class A { m(){} "s"(){} }
ClassMethods(links) ==
  OneLineTree(<<0, 1, 2, 2, 4, 5, 5, 7, 4, 9, 9, 11>>,
              <<"Program", "ClassDeclaration", "Identifier", "ClassBody",
                "MethodDefinition", "Identifier", "FunctionExpression",
                "BlockStatement", "MethodDefinition", "Literal",
                "FunctionExpression", "BlockStatement">>,
              <<"", "", "A", "", "", "m", "", "", "", "s", "", "">>, links)

\* function greet(){}  export default function(){}
Declarations(links) ==
  OneLineTree(<<0, 1, 2, 2, 1, 5, 6>>,
              <<"Program", "FunctionDeclaration", "Identifier", "BlockStatement",
                "ExportDefaultDeclaration", "FunctionDeclaration", "BlockStatement">>,
              <<"", "", "greet", "", "", "", "">>, links)

\* The trees of these texts, as a tree builder that sets no back-reference
\* makes them and as one that sets them.
NameScenarios ==
  UNION {{MultiplyArrow(b), AssignedFunction(b), CallbackFunctions(b),
          ClassMethods(b), Declarations(b)} : b \in BOOLEAN}

\* analyzeFunctions(ast) is called on a tree of the parser, built with or
\* without the `loc` option, or on the tree of a scenario.
FunctionsInit ==
  /\ \/ ast \in NameScenarios
     \/ \E n \in 1..MaxNodes : \E p \in ParentVecs(n) :
        \E ty \in [1..n -> FunctionKinds \cup {"Program"}] :
        \E ln \in [1..n -> LineNumbers] : \E loc \in BOOLEAN :
          /\ ast = [n |-> n, parent |-> p, type |-> ty, line |-> ln,
                    tok |-> [i \in 1..n |-> ""], parentLinks |-> FALSE, hasLoc |-> loc]
          /\ WellFormed(ast)
          /\ ~loc => \A i \in 1..n : ln[i] = 1
  /\ FunStart
  /\ CalcIdle

FunctionsNext == ProcessFunction \/ SortFunctions \/ AnalyzeOverflows

(***************************************************************************)
(* FileMetricsAnalyzer.analyzeFile                                         *)
(***************************************************************************)
\* countClasses(ast)
\* Class expressions left out of the count.
countClassDeclarations(t) ==
  LET w == Walked(t, 1)
  IN Cardinality({i \in 1..Len(w) : t.type[w[i]] = "ClassDeclaration"})

countClasses(t) ==
  LET w == Walked(t, 1)
  IN Cardinality({i \in 1..Len(w) : t.type[w[i]] \in {"ClassDeclaration", "ClassExpression"}})

\* calculateInheritanceDepth(ast) on a tree whose classes and interfaces
\* (named by their token) declare no parent: every name gets depth 1 and
\* no edge is relaxed.  The relaxation itself is the part driven by
\* SpecDepth.
InheritanceDepthNoEdges(t) ==
  IF \E x \in Nodes(t) :
       /\ t.type[x] \in {"ClassDeclaration", "ClassExpression", "TSInterfaceDeclaration"}
       /\ t.tok[x] # ""
    THEN 1 ELSE 0

RECURSIVE SumComplexity(_)
\* functions.reduce((sum, fn) => sum + fn.metrics.metrics.cyclomaticComplexity, 0)
SumComplexity(fs) ==
  IF fs = <<>> THEN 0 ELSE Head(fs).metrics.cyclomaticComplexity + SumComplexity(Tail(fs))

averageComplexitySum(fs) == 1000 * SumComplexity(fs)
\* functions.length > 0 ? sum / functions.length : 0, in thousandths.
averageComplexity(fs) ==
  IF Len(fs) > 0 THEN DivMilli(SumComplexity(fs), Len(fs)) ELSE 0

methodCountPlusOne(fs) == Len(fs) + 1
\* methodCount: functions.length
methodCount(fs) == Len(fs)

\* The empty analysis with the base complexity in it.
createEmptyAnalysisBase ==
  [fileMetrics |-> [linesOfCode |-> 0,
                    cyclomaticComplexity |-> 1,
                    maintainabilityIndex |-> 0,
                    classCount |-> 0,
                    methodCount |-> 0,
                    averageMethodComplexity |-> 0,
                    depthOfInheritance |-> 0],
   functions |-> <<>>]

createEmptyAnalysis ==
  [fileMetrics |-> [linesOfCode |-> 0,
                    cyclomaticComplexity |-> 0,
                    maintainabilityIndex |-> 0,
                    classCount |-> 0,
                    methodCount |-> 0,
                    averageMethodComplexity |-> 0,
                    depthOfInheritance |-> 0],
   functions |-> <<>>]

\* The rest of the try block once analyzeFunctions has returned fs: the
\* FileAnalysis returned and the accumulator the Halstead singleton is left
\* with.
FileAnalysisOf(d, t, fs) ==
  LET fileComplexity == ComplexityProcess(t, 1)
      fileHalstead == HalsteadProcess(d, t, 1)
      fileLLOC == countLogicalLinesOfCode(t, 1)
  IN [data |-> fileHalstead.data,
      analysis |->
        [fileMetrics |-> [linesOfCode |-> fileLLOC,
                          cyclomaticComplexity |-> fileComplexity,
                          maintainabilityIndex |->
                            calculateMaintainabilityIndex(fileHalstead.data,
                                                          fileComplexity, fileLLOC),
                          averageMethodComplexity |-> averageComplexity(fs),
                          methodCount |-> methodCount(fs),
                          classCount |-> countClasses(t),
                          depthOfInheritance |-> InheritanceDepthNoEdges(t)],
         functions |-> fs]]

\* analyzeFile(code, filePath) as one call.
analyzeFile(d, c) ==
  IF c.ok
    THEN LET f == analyzeFunctions(d, c.tree)
         IN FileAnalysisOf(f.data, c.tree, f.functions)
    ELSE [data |-> d, analysis |-> createEmptyAnalysis]

NoAnalysis == [fileMetrics |-> <<>>, functions |-> <<>>]

\* The node types of the files analyzeFile is driven on, and their tokens.
FileKinds ==
  {"FunctionDeclaration", "FunctionExpression", "ArrowFunctionExpression",
   "MethodDefinition", "IfStatement", "Identifier", "ClassDeclaration"}

TokenOf(ty) ==
  CASE ty = "Identifier" -> "a"
    [] ty = "ClassDeclaration" -> "A"
    [] ty = "LogicalExpression" -> "&&"
    [] OTHER -> ""

\* The trees the parser makes of the files: node i starts on line i.
FileTree(n, p, ty) ==
  [n |-> n, parent |-> p, type |-> ty, line |-> [i \in 1..n |-> i],
   tok |-> [i \in 1..n |-> TokenOf(ty[i])], parentLinks |-> FALSE, hasLoc |-> TRUE]

Unparsable == [ok |-> FALSE, tree |-> NoTree]

\* The tree the parser makes of
\*   function f(){ if (x) { return 1; } else { return 2; } }
\* Program(1) > FunctionDeclaration(2) > id f(3), body(4) > IfStatement(5) >
\* test x(6), consequent(7) > return(8) > 1(9), alternate(10) > return(11) > 2(12).
IfElseFunction ==
  [n |-> 12,
   parent |-> <<0, 1, 2, 2, 4, 5, 5, 7, 8, 5, 10, 11>>,
   type |-> <<"Program", "FunctionDeclaration", "Identifier", "BlockStatement",
              "IfStatement", "Identifier", "BlockStatement", "ReturnStatement",
              "Literal", "BlockStatement", "ReturnStatement", "Literal">>,
   line |-> [i \in 1..12 |-> 1],
   tok |-> <<"", "", "f", "", "", "x", "", "", "1", "", "", "2">>,
   parentLinks |-> FALSE, hasLoc |-> TRUE]

\* The tree of `function f(){}`: Program > FunctionDeclaration > id f, body.
EmptyFunction ==
  [n |-> 4, parent |-> <<0, 1, 2, 2>>,
   type |-> <<"Program", "FunctionDeclaration", "Identifier", "BlockStatement">>,
   line |-> [i \in 1..4 |-> 1], tok |-> <<"", "", "f", "">>,
   parentLinks |-> FALSE, hasLoc |-> TRUE]

\* The tree of `(() => {});`: Program > ExpressionStatement > arrow > body.
EmptyArrow ==
  [n |-> 4, parent |-> <<0, 1, 2, 3>>,
   type |-> <<"Program", "ExpressionStatement", "ArrowFunctionExpression",
              "BlockStatement">>,
   line |-> [i \in 1..4 |-> 1], tok |-> <<"", "", "", "">>,
   parentLinks |-> FALSE, hasLoc |-> TRUE]

\* The tree of `function g(a, b){}`: the two parameters before the body.
EmptyFunctionOfTwo ==
  [n |-> 6, parent |-> <<0, 1, 2, 2, 2, 2>>,
   type |-> <<"Program", "FunctionDeclaration", "Identifier", "Identifier",
              "Identifier", "BlockStatement">>,
   line |-> [i \in 1..6 |-> 1], tok |-> <<"", "", "g", "a", "b", "">>,
   parentLinks |-> FALSE, hasLoc |-> TRUE]

\* The tree of the mixin pattern (test/fixtures/inheritance-depth.ts):
\*   function M(B) { return class extends B {}; }
\*   class R extends M(S) {}
\* Program > FunctionDeclaration(2) > id M, param B, body(5) > return(6) >
\* ClassExpression(7, no id) > superClass B, ClassBody;
\* ClassDeclaration(10) > id R, superClass M(S) (12) > S, M; ClassBody.
MixinClasses ==
  [n |-> 15,
   parent |-> <<0, 1, 2, 2, 2, 5, 6, 7, 7, 1, 10, 10, 12, 12, 10>>,
   type |-> <<"Program", "FunctionDeclaration", "Identifier", "Identifier",
              "BlockStatement", "ReturnStatement", "ClassExpression", "Identifier",
              "ClassBody", "ClassDeclaration", "Identifier", "CallExpression",
              "Identifier", "Identifier", "ClassBody">>,
   line |-> <<1, 1, 1, 1, 1, 1, 1, 1, 1, 2, 2, 2, 2, 2, 2>>,
   tok |-> <<"", "", "M", "B", "", "", "", "B", "", "R", "R", "", "S", "M", "">>,
   parentLinks |-> FALSE, hasLoc |-> TRUE]

\* The tree of a method whose computed key holds a function:
\*   class A { [(() => a && b)()]() {} }
\* Program > ClassDeclaration(2) > id A, ClassBody(4) > MethodDefinition(5) >
\* key: call(6) > arrow(7) > a && b (8) > a, b;  value: FunctionExpression(11)
\* > body.
ComputedKeyMethod ==
  [n |-> 12,
   parent |-> <<0, 1, 2, 2, 4, 5, 6, 7, 8, 8, 5, 11>>,
   type |-> <<"Program", "ClassDeclaration", "Identifier", "ClassBody",
              "MethodDefinition", "CallExpression", "ArrowFunctionExpression",
              "LogicalExpression", "Identifier", "Identifier", "FunctionExpression",
              "BlockStatement">>,
   line |-> [i \in 1..12 |-> 1],
   tok |-> <<"", "A", "A", "", "", "", "", "&&", "a", "b", "", "">>,
   parentLinks |-> FALSE, hasLoc |-> TRUE]

\* The source texts of the scenarios; the last ones are texts whose tree
\* comes with back-references.
ScenarioFiles ==
  {[ok |-> TRUE, tree |-> t] :
     t \in {IfElseFunction, EmptyFunction, EmptyArrow, EmptyFunctionOfTwo, MixinClasses,
            ComputedKeyMethod,
            MultiplyArrow(FALSE), MultiplyArrow(TRUE), Declarations(TRUE)}}

\* analyzeFile(code, filePath) is called on a source text: one the parser
\* rejects, or one it makes a tree of.
FileInit ==
  /\ \/ code = Unparsable
     \/ code \in ScenarioFiles
     \/ \E n \in 1..MaxNodes : \E p \in ParentVecs(n) :
        \E ty \in [1..n -> FileKinds \cup {"Program"}] :
          /\ code = [ok |-> TRUE, tree |-> FileTree(n, p, ty)]
          /\ WellFormed(code.tree)
  /\ analysis = NoAnalysis
  /\ apc = "parse"
  /\ ast = NoTree
  /\ FunIdle
  /\ CalcIdle

\* parse(code, DEFAULT_PARSE_OPTIONS) returns the tree; analyzeFunctions is
\* entered.
ParseTypeScript ==
  /\ apc = "parse"
  /\ code.ok
  /\ ast' = code.tree
  /\ apc' = "functions"
  /\ functions' = <<>>
  /\ processedNodes' = {}
  /\ fidx' = 1
  /\ fpc' = "traverse"
  /\ UNCHANGED <<halsteadData, code, analysis>>
  /\ AnalysisFrame

\* parse throws: the catch block returns the empty analysis.
ParseThrows ==
  /\ apc = "parse"
  /\ ~code.ok
  /\ analysis' = createEmptyAnalysis
  /\ apc' = "done"
  /\ UNCHANGED <<ast, halsteadData, funVars, code>>
  /\ AnalysisFrame

\* A call of the try block throws: the catch block returns the empty
\* analysis.
AnalysisThrows ==
  /\ apc = "functions"
  /\ fpc = "overflow"
  /\ analysis' = createEmptyAnalysis
  /\ apc' = "done"
  /\ UNCHANGED <<ast, halsteadData, funVars, code>>
  /\ AnalysisFrame

\* analyzeFunctions has returned: the file-level metrics are computed and
\* the FileAnalysis is returned.
FileMetrics ==
  /\ apc = "functions"
  /\ fpc = "done"
  /\ LET r == FileAnalysisOf(halsteadData, ast, functions)
     IN /\ analysis' = r.analysis
        /\ halsteadData' = r.data
  /\ apc' = "done"
  /\ UNCHANGED <<ast, funVars, code>>
  /\ AnalysisFrame

FileNext ==
  \/ ParseTypeScript \/ ParseThrows \/ ProcessFunction \/ SortFunctions
  \/ AnalyzeOverflows \/ AnalysisThrows \/ FileMetrics

(***************************************************************************)
(* The calculators called one after the other on two trees.                *)
(***************************************************************************)
\* The parsed files of at most N nodes with node types in K.
SourceTrees(N, K) ==
  UNION {{t \in {FileTree(n, p, ty) : p \in ParentVecs(n),
                                       ty \in [1..n -> K \cup {"Program"}]} :
            WellFormed(t)} : n \in 1..N}

\* An operand, a node that is an operator, a branch and a logical line at
\* once, and a function.
CallKinds == {"Identifier", "LogicalExpression", "FunctionDeclaration"}

Calculators == {"halstead", "complexity", "loc", "functions"}

CallsIdle ==
  /\ callSubject = NoTree
  /\ callOther = NoTree
  /\ callResults = [c \in Calculators |-> {}]
  /\ callPhase = 0

CallsInit ==
  /\ callSubject \in SourceTrees(MaxNodes - 1, CallKinds)
  /\ callOther \in SourceTrees(MaxNodes - 2, CallKinds)
  /\ callResults = [c \in Calculators |-> {}]
  /\ callPhase = 0
  /\ CalcIdle

\* A call on the subject (s = TRUE) or on the other tree moves the phase.
PhaseAfter(s) ==
  IF s THEN (IF callPhase \in {0, 2} THEN callPhase + 1 ELSE callPhase)
       ELSE (IF callPhase = 1 THEN 2 ELSE callPhase)

Record(c, s, r) ==
  IF s THEN [callResults EXCEPT ![c] = @ \cup {r}] ELSE callResults

\* halsteadMetricsCalculator.process(tree)
CallHalstead ==
  \E s \in BOOLEAN :
    LET t == IF s THEN callSubject ELSE callOther
        h == HalsteadProcess(halsteadData, t, 1)
    IN /\ halsteadData' = h.data
       /\ callResults' = Record("halstead", s, h.volume)
       /\ callPhase' = PhaseAfter(s)
       /\ UNCHANGED <<callSubject, callOther>>
       /\ CallsFrame

\* cyclomaticComplexityCalculator.process(tree)
CallComplexity ==
  \E s \in BOOLEAN :
    LET t == IF s THEN callSubject ELSE callOther
    IN /\ callResults' = Record("complexity", s, ComplexityProcess(t, 1))
       /\ callPhase' = PhaseAfter(s)
       /\ UNCHANGED <<callSubject, callOther, halsteadData>>
       /\ CallsFrame

\* functionAnalyzer.countLogicalLines(tree)
CallCountLogicalLines ==
  \E s \in BOOLEAN :
    LET t == IF s THEN callSubject ELSE callOther
    IN /\ callResults' = Record("loc", s, countLogicalLinesOfCode(t, 1))
       /\ callPhase' = PhaseAfter(s)
       /\ UNCHANGED <<callSubject, callOther, halsteadData>>
       /\ CallsFrame

\* functionAnalyzer.analyzeFunctions(tree)
CallAnalyzeFunctions ==
  \E s \in BOOLEAN :
    LET t == IF s THEN callSubject ELSE callOther
        f == analyzeFunctions(halsteadData, t)
    IN /\ halsteadData' = f.data
       /\ callResults' = Record("functions", s, f.functions)
       /\ callPhase' = PhaseAfter(s)
       /\ UNCHANGED <<callSubject, callOther>>
       /\ CallsFrame

CallsNext ==
  CallHalstead \/ CallComplexity \/ CallCountLogicalLines \/ CallAnalyzeFunctions

(***************************************************************************)
(* analyzeDirectory: one task per file, all started before any finishes;   *)
(* a task waits for readFile and then runs analyzeFile to its end, the     *)
(* engine being synchronous.                                               *)
(***************************************************************************)
MaxFiles == 3

DirIdle ==
  /\ dirFiles = <<>>
  /\ taskPc = <<>>
  /\ dirResults = <<>>
  /\ dirPc = "idle"

\* findTypeScriptFiles has returned the files.
DirInit ==
  /\ \E n \in 1..MaxFiles :
       /\ dirFiles \in [1..n -> {Unparsable} \cup
                                 {[ok |-> TRUE, tree |-> t] :
                                    t \in SourceTrees(MaxNodes - 1, CallKinds)}]
       /\ taskPc = [i \in 1..n |-> "pending"]
       /\ dirResults = [i \in 1..n |-> NoAnalysis]
  /\ dirPc = "map"
  /\ CalcIdle

\* files.map calls the async callback on the next file: it runs up to
\* `await fs.readFile(...)`.
StartTask ==
  /\ dirPc = "map"
  /\ \E i \in 1..Len(dirFiles) :
       /\ taskPc[i] = "pending"
       /\ \A j \in 1..(i - 1) : taskPc[j] # "pending"
       /\ taskPc' = [taskPc EXCEPT ![i] = "reading"]
  /\ UNCHANGED <<dirFiles, dirResults, dirPc, halsteadData>>
  /\ DirFrame

\* map has returned; analyzeDirectory awaits Promise.all.
AwaitAll ==
  /\ dirPc = "map"
  /\ \A i \in 1..Len(dirFiles) : taskPc[i] # "pending"
  /\ dirPc' = "await"
  /\ UNCHANGED <<dirFiles, taskPc, dirResults, halsteadData>>
  /\ DirFrame

\* The read of some file is over: its task resumes and runs
\* typescriptAnalyzeFile(code, file) to the end.
FinishTask ==
  /\ dirPc = "await"
  /\ \E i \in 1..Len(dirFiles) :
       /\ taskPc[i] = "reading"
       /\ LET r == analyzeFile(halsteadData, dirFiles[i])
          IN /\ dirResults' = [dirResults EXCEPT ![i] = r.analysis]
             /\ halsteadData' = r.data
       /\ taskPc' = [taskPc EXCEPT ![i] = "done"]
  /\ UNCHANGED <<dirFiles, dirPc>>
  /\ DirFrame

\* Every task is over: Promise.all resolves with the results in file order.
ResolveAll ==
  /\ dirPc = "await"
  /\ \A i \in 1..Len(dirFiles) : taskPc[i] = "done"
  /\ dirPc' = "resolved"
  /\ UNCHANGED <<dirFiles, taskPc, dirResults, halsteadData>>
  /\ DirFrame

DirNext == StartTask \/ AwaitAll \/ FinishTask \/ ResolveAll

(***************************************************************************)
(* calculateInheritanceDepth                                               *)
(***************************************************************************)
\* Identifiers of the file: T1 .. T<MaxTypes>.  The i-th declaration met by
\* the traversal is named i (names are distinct; renaming is a symmetry of the
\* algorithm), so a name above Len(decls) is a name the file does not declare.
TypeNames == 1..MaxTypes

\* The relaxation is unbounded in the code; the model stops starting new
\* passes after MaxPasses so that the state space stays finite.
MaxPasses == MaxTypes + 3

\* A declaration as the getters read it: its name (getTypeIdentifier) and the
\* identifiers its superClass (getSuperclassIdentifier), extends
\* (getExtendedInterfaces) and implements (getImplementedInterfaces) clauses
\* name, in the order the callback pushes their edges.
ParentNames(d) == d.parents

EdgesOf(d) == [i \in 1..Len(ParentNames(d)) |-> <<d.name, ParentNames(d)[i]>>]

\* Map.set
MapSet(m, k, v) == [n \in DOMAIN m \cup {k} |-> IF n = k THEN v ELSE m[n]]

\* A name the map has not got read as depth 0.
GetOr0(m, k) == IF k \in DOMAIN m THEN m[k] ELSE 0

\* inheritanceMap.get(name) || 1
GetOr1(m, k) == IF k \in DOMAIN m /\ m[k] # 0 THEN m[k] ELSE 1

\* A step of two levels per edge.
NewDepthByTwo(parentDepth) == parentDepth + 2

\* const newDepth = parentDepth + 1
NewDepth(parentDepth) == parentDepth + 1

\* while (changed)
LoopAgainNever(ch) == FALSE
LoopAgain(ch) == ch

\* inheritanceMap.size > 0 ? Math.max(...inheritanceMap.values()) : 0
MaxDepthOf(m) == IF DOMAIN m # {} THEN SetMax({m[k] : k \in DOMAIN m}) ELSE 0

EmptyMap == [n \in {} |-> 0]

DepthInit ==
  /\ decls = <<>>
  /\ inheritanceMap = EmptyMap
  /\ inheritanceEdges = <<>>
  /\ changed = FALSE
  /\ edgeIdx = 0
  /\ passes = 0
  /\ dpc = "collect"
  /\ depthResult = 0

DepthIdle ==
  /\ decls = <<>>
  /\ inheritanceMap = EmptyMap
  /\ inheritanceEdges = <<>>
  /\ changed = FALSE
  /\ edgeIdx = 0
  /\ passes = 0
  /\ dpc = "idle"
  /\ depthResult = 0

\* The traversal callback on a named class or interface declaration.
VisitType ==
  /\ dpc = "collect"
  /\ Len(decls) < MaxTypes
  /\ \E ps \in SeqsUpTo(TypeNames, MaxEdges - Len(inheritanceEdges)) :
       LET d == [name |-> Len(decls) + 1, parents |-> ps]
       IN /\ decls' = Append(decls, d)
          /\ inheritanceMap' = MapSet(inheritanceMap, d.name, 1)
          /\ inheritanceEdges' = inheritanceEdges \o EdgesOf(d)
  /\ UNCHANGED <<changed, edgeIdx, passes, dpc, depthResult>>
  /\ DepthFrame

\* The traversal returns; the do-while body is entered for the first time.
EndTraverse ==
  /\ dpc = "collect"
  /\ dpc' = "relax"
  /\ changed' = FALSE
  /\ edgeIdx' = 1
  /\ passes' = 1
  /\ UNCHANGED <<decls, inheritanceMap, inheritanceEdges, depthResult>>
  /\ DepthFrame

\* One iteration of the for-of loop over inheritanceEdges.
RelaxEdge ==
  /\ dpc = "relax"
  /\ edgeIdx <= Len(inheritanceEdges)
  /\ LET childName == inheritanceEdges[edgeIdx][1]
         parentName == inheritanceEdges[edgeIdx][2]
         parentDepth == GetOr1(inheritanceMap, parentName)
         currentDepth == GetOr1(inheritanceMap, childName)
         newDepth == NewDepth(parentDepth)
     IN IF newDepth > currentDepth
        THEN /\ inheritanceMap' = MapSet(inheritanceMap, childName, newDepth)
             /\ changed' = TRUE
        ELSE UNCHANGED <<inheritanceMap, changed>>
  /\ edgeIdx' = edgeIdx + 1
  /\ UNCHANGED <<decls, inheritanceEdges, passes, dpc, depthResult>>
  /\ DepthFrame

\* The for-of loop is over and changed is set: the do-while starts another pass.
NextPass ==
  /\ dpc = "relax"
  /\ edgeIdx > Len(inheritanceEdges)
  /\ LoopAgain(changed)
  /\ passes < MaxPasses
  /\ changed' = FALSE
  /\ edgeIdx' = 1
  /\ passes' = passes + 1
  /\ UNCHANGED <<decls, inheritanceMap, inheritanceEdges, dpc, depthResult>>
  /\ DepthFrame

\* The for-of loop is over and nothing changed: return the maximum depth.
ReturnDepth ==
  /\ dpc = "relax"
  /\ edgeIdx > Len(inheritanceEdges)
  /\ ~LoopAgain(changed)
  /\ dpc' = "done"
  /\ depthResult' = MaxDepthOf(inheritanceMap)
  /\ UNCHANGED <<decls, inheritanceMap, inheritanceEdges, changed, edgeIdx, passes>>
  /\ DepthFrame

DepthNext == VisitType \/ EndTraverse \/ RelaxEdge \/ NextPass \/ ReturnDepth

(***************************************************************************)
(* FunctionAnalyzer.countLogicalLinesOfCode, one callback call at a time.  *)
(***************************************************************************)
LinesIdle ==
  /\ locNode = 0
  /\ lloc = 0
  /\ locProcessed = {}
  /\ locIdx = 0
  /\ locPc = "idle"

\* The node types of the trees the count is driven on.
LineKinds ==
  {"FunctionDeclaration", "ArrowFunctionExpression", "BlockStatement",
   "IfStatement", "Identifier"}

\* What the callback adds for a node it sees for the first time, taking the
\* body of a function-like node (its last child) for a second count of the
\* statements in it.
LineIncrementWithBlock(t, n) ==
  LET body == IF ChildSet(t, n) # {} /\ t.type[LastChild(t, n)] = "BlockStatement"
              THEN {y \in ChildSet(t, LastChild(t, n)) : isExecutableLine(t, y)}
              ELSE {}
  IN IF t.type[n] \in {"FunctionDeclaration", "FunctionExpression",
                       "ArrowFunctionExpression"}
     THEN 1 + Cardinality(body)
     ELSE IF isExecutableLine(t, n) THEN 1 ELSE 0

\* if (this.isExecutableLine(n)) { loc++; }
LineIncrement(t, n) == IF isExecutableLine(t, n) THEN 1 ELSE 0

\* countLogicalLinesOfCode(node) is called on a node of a tree of the parser.
LinesInit ==
  /\ \E n \in 1..MaxNodes : \E p \in ParentVecs(n) :
     \E ty \in [1..n -> LineKinds \cup {"Program"}] :
       /\ ast = [n |-> n, parent |-> p, type |-> ty, line |-> [i \in 1..n |-> 1],
                 tok |-> [i \in 1..n |-> ""], parentLinks |-> FALSE, hasLoc |-> TRUE]
       /\ WellFormed(ast)
  /\ locNode \in Nodes(ast)
  /\ lloc = 0
  /\ locProcessed = {}
  /\ locIdx = 1
  /\ locPc = "traverse"

\* The traversal calls the callback on the next node.
CountLine ==
  /\ locPc = "traverse"
  /\ locIdx <= Len(Walked(ast, locNode))
  /\ LET n == Walked(ast, locNode)[locIdx]
     IN IF n \in locProcessed
        THEN UNCHANGED <<lloc, locProcessed>>
        ELSE /\ locProcessed' = locProcessed \cup {n}
             /\ lloc' = lloc + LineIncrement(ast, n)
  /\ locIdx' = locIdx + 1
  /\ UNCHANGED <<ast, locNode, locPc>>
  /\ LinesFrame

\* The traversal is over: `return loc`.
ReturnLines ==
  /\ locPc = "traverse"
  /\ locIdx > Len(Walked(ast, locNode))
  /\ locPc' = "done"
  /\ UNCHANGED <<ast, locNode, lloc, locProcessed, locIdx>>
  /\ LinesFrame

LinesNext == CountLine \/ ReturnLines

(***************************************************************************)
(* calculateMaintainabilityIndex on the arguments the calculators produce. *)
(***************************************************************************)
IndexIdle ==
  /\ miData = EmptyData
  /\ miComplexity = 0
  /\ miLines = 0
  /\ miResult = -1
  /\ miPc = "idle"

\* The largest number of tokens gathered, and of logical lines counted.
MaxLength == 4
MaxLines == 4

\* process() of the complexity calculator returns 1 or more; some values, up
\* to ones that turn the raw index negative (0.23 * 744 > 171).
ComplexityValues == {1, 2, 10, 100, 743, 744, 1000}

\* The accumulators gatherMetrics can leave: every distinct token was met
\* at least once.  Tokens are numbered; operators and operands are disjoint
\* in the vocabulary sum whatever they are.
HalsteadDatas ==
  {[operators |-> 1..a, operands |-> 1..b, operatorCount |-> m, operandCount |-> k] :
     a \in 0..MaxLength, b \in 0..MaxLength, m \in 0..MaxLength, k \in 0..MaxLength}

ProducibleData(d) ==
  /\ d.operatorCount + d.operandCount <= MaxLength
  /\ Cardinality(d.operators) <= d.operatorCount
  /\ Cardinality(d.operands) <= d.operandCount
  /\ d.operators = {} <=> d.operatorCount = 0
  /\ d.operands = {} <=> d.operandCount = 0

\* calculateMaintainabilityIndex(halsteadVolume, cyclomaticComplexity,
\* linesOfCode) is called by calculate() or analyzeFile().
IndexInit ==
  /\ miData \in {d \in HalsteadDatas : ProducibleData(d)}
  /\ miComplexity \in ComplexityValues
  /\ miLines \in 0..MaxLines
  /\ miResult = -1
  /\ miPc = "call"

\* The call returns.
ReturnIndex ==
  /\ miPc = "call"
  /\ miResult' = calculateMaintainabilityIndex(miData, miComplexity, miLines)
  /\ miPc' = "done"
  /\ UNCHANGED <<miData, miComplexity, miLines>>
  /\ IndexFrame

IndexNext == ReturnIndex

(***************************************************************************)
(* HalsteadMetricsCalculator.process on a subtree, then on the subtree     *)
(* with one more node in it.                                               *)
(***************************************************************************)
NoMeasure == [data |-> EmptyData, volume |-> 0]

GrowIdle ==
  /\ growRoot = 0
  /\ growBefore = NoMeasure
  /\ growAfter = NoMeasure
  /\ growPc = "idle"

\* The nodes of the trees measured: <<type, token>>.
GrowShapes ==
  {<<"Identifier", "a">>, <<"Identifier", "b">>, <<"BinaryExpression", "+">>,
   <<"CallExpression", "">>, <<"MemberExpression", "">>}

\* process(node) is about to be called on a node of a tree of the parser.
GrowInit ==
  /\ \E n \in 1..(MaxNodes - 1) : \E p \in ParentVecs(n) :
     \E sh \in [1..n -> GrowShapes \cup {<<"Program", "">>}] :
       /\ ast = [n |-> n, parent |-> p, type |-> [i \in 1..n |-> sh[i][1]],
                 line |-> [i \in 1..n |-> 1], tok |-> [i \in 1..n |-> sh[i][2]],
                 parentLinks |-> FALSE, hasLoc |-> TRUE]
       /\ WellFormed(ast)
  /\ growRoot \in Nodes(ast)
  /\ growBefore = NoMeasure
  /\ growAfter = NoMeasure
  /\ growPc = "before"
  /\ CalcIdle

\* The tree t with one more leaf: the new node is node k, held by node p,
\* and the nodes k.. of t are renumbered k+1.. (key order is kept).
InsertNode(t, k, p, ty, tk) ==
  LET old(i) == IF i < k THEN i ELSE i - 1
      up(j) == IF j < k THEN j ELSE j + 1
  IN [n |-> t.n + 1,
      parent |-> [i \in 1..(t.n + 1) |->
                    IF i = k THEN p
                    ELSE IF t.parent[old(i)] = 0 THEN 0 ELSE up(t.parent[old(i)])],
      type |-> [i \in 1..(t.n + 1) |-> IF i = k THEN ty ELSE t.type[old(i)]],
      line |-> [i \in 1..(t.n + 1) |-> 1],
      tok |-> [i \in 1..(t.n + 1) |-> IF i = k THEN tk ELSE t.tok[old(i)]],
      parentLinks |-> t.parentLinks, hasLoc |-> t.hasLoc]

\* The new node k took no field of a node of t: a node that has a callee,
\* a property or a value (its last child) has the same one in t2.
KeepsFields(t, t2, k) ==
  \A y \in Nodes(t) :
    LET y2 == IF y < k THEN y ELSE y + 1
    IN t.type[y] \in {"CallExpression", "MemberExpression", "MethodDefinition"} =>
         /\ ChildSet(t2, y2) # {}
         /\ LastChild(t2, y2) # k

\* What the callback of gatherMetrics does on a leaf of this type and token
\* adds a token that accumulator d has not got.
ContributesNewToken(d, ty, tk) ==
  \/ ty \in OperatorTypes /\ tk \notin d.operators
  \/ ty \in {"Identifier", "Literal"} /\ tk \notin d.operands
  \/ ty = "ConditionalExpression" /\ "?:" \notin d.operators
  \/ ty = "NewExpression" /\ "new" \notin d.operators

\* process(node) on the subtree.
MeasureBefore ==
  /\ growPc = "before"
  /\ LET h == HalsteadProcess(halsteadData, ast, growRoot)
     IN /\ growBefore' = h
        /\ halsteadData' = h.data
  /\ growPc' = "add"
  /\ UNCHANGED <<ast, growRoot, growAfter>>
  /\ GrowFrame

\* A node with a token the subtree has not got is added somewhere in it.
AddNode ==
  /\ growPc = "add"
  /\ \E k \in 2..(ast.n + 1) : \E p \in 1..(k - 1) : \E sh \in GrowShapes :
       LET t2 == InsertNode(ast, k, p, sh[1], sh[2])
       IN /\ p \in Subtree(ast, growRoot)
          /\ ContributesNewToken(growBefore.data, sh[1], sh[2])
          /\ WellFormed(t2)
          /\ KeepsFields(ast, t2, k)
          /\ ast' = t2
          /\ growRoot' = IF growRoot < k THEN growRoot ELSE growRoot + 1
  /\ growPc' = "after"
  /\ UNCHANGED <<halsteadData, growBefore, growAfter>>
  /\ GrowFrame

\* process(node) on the subtree again.
MeasureAfter ==
  /\ growPc = "after"
  /\ LET h == HalsteadProcess(halsteadData, ast, growRoot)
     IN /\ growAfter' = h
        /\ halsteadData' = h.data
  /\ growPc' = "done"
  /\ UNCHANGED <<ast, growRoot, growBefore>>
  /\ GrowFrame

GrowNext == MeasureBefore \/ AddNode \/ MeasureAfter

(***************************************************************************)
(* The tool handlers handleAnalyzeText and handleAnalyzeFile.              *)
(***************************************************************************)
NoArgs == [tool |-> "", format |-> "", code |-> Unparsable, readable |-> FALSE,
           include_source |-> FALSE]
NoValidatedArgs == [format |-> "", include_source |-> FALSE]
NoResult == [isError |-> FALSE, content |-> <<>>]

ToolIdle ==
  /\ args = NoArgs
  /\ validatedArgs = NoValidatedArgs
  /\ toolResult = NoResult
  /\ toolPc = "idle"

ToolNames == {"typescript_analyze_text", "typescript_analyze_file"}

\* format: z.enum(["json", "table"]).default("json")
FormatEnum == {"json", "table"}
FormatDefault == "json"

\* The values a client gives for `format`: those of the schema, the `text`
\* the README names, or none at all.
FormatsGiven == FormatEnum \cup {"text", "absent"}

\* The texts analysed: one the parser rejects, and the scenarios.
ToolTexts ==
  {Unparsable} \cup
  {[ok |-> TRUE, tree |-> t] : t \in {EmptyFunction, EmptyArrow, IfElseFunction}}

\* createContent(analysis, format, filename)
createContent(a, format) ==
  IF format = "table"
    THEN [type |-> "text", kind |-> "table", analysis |-> a]
    ELSE [type |-> "json", kind |-> "json", analysis |-> a]

\* createErrorContent(error)
createErrorContent == [type |-> "text", kind |-> "error", analysis |-> NoAnalysis]

\* The embedded source pushed when include_source is set.
ResourceContent == [type |-> "resource", kind |-> "source", analysis |-> NoAnalysis]

\* A client calls one of the two tools.
ToolInit ==
  /\ \E tl \in ToolNames : \E f \in FormatsGiven : \E c \in ToolTexts :
     \E r \in BOOLEAN : \E inc \in BOOLEAN :
       /\ tl = "typescript_analyze_text" => r /\ ~inc
       /\ args = [tool |-> tl, format |-> f, code |-> c, readable |-> r,
                  include_source |-> inc]
  /\ validatedArgs = NoValidatedArgs
  /\ toolResult = NoResult
  /\ toolPc = "validate"
  /\ CalcIdle

\* Schema.parse(args): the default is filled in, or a ZodError is thrown.
SchemaParse ==
  /\ toolPc = "validate"
  /\ IF args.format \in FormatEnum \cup {"absent"}
       THEN /\ validatedArgs' =
                 [format |-> IF args.format = "absent" THEN FormatDefault ELSE args.format,
                  include_source |-> args.include_source]
            /\ toolPc' = IF args.tool = "typescript_analyze_file" THEN "read" ELSE "analyze"
       ELSE /\ toolPc' = "catch"
            /\ UNCHANGED validatedArgs
  /\ UNCHANGED <<args, toolResult, halsteadData>>
  /\ ToolFrame

\* await fs.readFile(validatedArgs.filepath, 'utf-8')
ReadFile ==
  /\ toolPc = "read"
  /\ toolPc' = IF args.readable THEN "analyze" ELSE "catch"
  /\ UNCHANGED <<args, validatedArgs, toolResult, halsteadData>>
  /\ ToolFrame

\* typescriptAnalyzeFile(code, ...) and the content returned.
ReturnContent ==
  /\ toolPc = "analyze"
  /\ LET r == analyzeFile(halsteadData, args.code)
         first == createContent(r.analysis, validatedArgs.format)
     IN /\ toolResult' =
             [isError |-> FALSE,
              content |-> IF validatedArgs.include_source
                            THEN <<first, ResourceContent>> ELSE <<first>>]
        /\ halsteadData' = r.data
  /\ toolPc' = "done"
  /\ UNCHANGED <<args, validatedArgs>>
  /\ ToolFrame

\* catch (error): the error result.
ReturnError ==
  /\ toolPc = "catch"
  /\ toolResult' = [isError |-> TRUE, content |-> <<createErrorContent>>]
  /\ toolPc' = "done"
  /\ UNCHANGED <<args, validatedArgs, halsteadData>>
  /\ ToolFrame

ToolNext == SchemaParse \/ ReadFile \/ ReturnContent \/ ReturnError

(***************************************************************************)
(* handleAnalyzeDirectory: which files findTypeScriptFiles hands to the    *)
(* analysis.  A file is described by whether its name ends in .ts or .tsx  *)
(* and by the pattern sets its path (or a directory on its path: a         *)
(* directory that is ignored is not scanned, and the ignore instance       *)
(* ignores every path below an ignored directory) matches.                 *)
(***************************************************************************)
FindIdle ==
  /\ entries = <<>>
  /\ gitignore = FALSE
  /\ ignore_patterns = FALSE
  /\ ig = {}
  /\ scanIdx = 0
  /\ files = <<>>
  /\ findPc = "idle"

\* The most files below the directory.
MaxEntries == 2

\* The pattern sets: the directory's .gitignore, the defaults
\* ['node_modules', '.*/', 'dist', 'build', 'out'], the call's ignore_patterns.
PatternSets == {"gitignore", "default", "call"}

\* const files = await findTypeScriptFiles(directory): the patterns handed
\* to findTypeScriptFiles by analyzeDirectory (additionalIgnorePatterns
\* takes its default, []).
additionalIgnorePatternsGiven(given) == FALSE

\* The tool is called on a directory.
FindInit ==
  /\ gitignore \in BOOLEAN
  /\ ignore_patterns \in BOOLEAN
  /\ entries \in SeqsUpTo([ts : BOOLEAN, matches : SUBSET PatternSets], MaxEntries)
  /\ \A i \in 1..Len(entries) :
       /\ ~gitignore => "gitignore" \notin entries[i].matches
       /\ ~ignore_patterns => "call" \notin entries[i].matches
  /\ ig = {}
  /\ scanIdx = 0
  /\ files = <<>>
  /\ findPc = "ignore"

\* createIgnore(); the .gitignore if it can be read; the defaults; the
\* additional patterns if there are any.
BuildIgnore ==
  /\ findPc = "ignore"
  /\ ig' = (IF gitignore THEN {"gitignore"} ELSE {}) \cup {"default"}
             \cup (IF additionalIgnorePatternsGiven(ignore_patterns) THEN {"call"} ELSE {})
  /\ scanIdx' = 1
  /\ findPc' = "scan"
  /\ UNCHANGED <<entries, gitignore, ignore_patterns, files>>
  /\ FindFrame

\* scan: the next entry is skipped if ig.ignores(relativePath), pushed if it
\* is a .ts or .tsx file.
ScanEntry ==
  /\ findPc = "scan"
  /\ scanIdx <= Len(entries)
  /\ files' = IF entries[scanIdx].matches \cap ig = {} /\ entries[scanIdx].ts
                THEN Append(files, scanIdx) ELSE files
  /\ scanIdx' = scanIdx + 1
  /\ UNCHANGED <<entries, gitignore, ignore_patterns, ig, findPc>>
  /\ FindFrame

\* The scan returns; every file found is read and analysed.
AnalyzeFound ==
  /\ findPc = "scan"
  /\ scanIdx > Len(entries)
  /\ findPc' = "done"
  /\ UNCHANGED <<entries, gitignore, ignore_patterns, ig, scanIdx, files>>
  /\ FindFrame

FindNext == BuildIgnore \/ ScanEntry \/ AnalyzeFound

(***************************************************************************)
(* CyclomaticComplexityCalculator.process, one callback call at a time.    *)
(***************************************************************************)
ComplexityIdle ==
  /\ ccNode = 0
  /\ ccTotal = 0
  /\ ccIdx = 0
  /\ ccPc = "idle"

\* The most nodes of the enumerated trees the complexity is driven on.
MaxBranchNodes == 3

\* Their nodes, <<type, token>>: every node type the calculator tells apart,
\* the two sorts of switch case, the three logical operators, and two types
\* it passes over.
BranchShapes ==
  {<<ty, "">> : ty \in CONTROL_FLOW_NODES} \cup
  {<<"SwitchCase", "">>, <<"SwitchCase", "default">>} \cup
  {<<"LogicalExpression", op>> : op \in LOGICAL_OPERATORS} \cup
  {<<"BlockStatement", "">>, <<"BinaryExpression", "+">>}

\* a && b && c;   Program > ExpressionStatement > (a && b)(4) && c: the outer
\* expression (3) holds the inner one and c.
LogicalChain ==
  OneLineTree(<<0, 1, 2, 3, 4, 4, 3>>,
              <<"Program", "ExpressionStatement", "LogicalExpression",
                "LogicalExpression", "Identifier", "Identifier", "Identifier">>,
              <<"", "", "&&", "&&", "a", "b", "c">>, FALSE)

\* switch (x) { case 1: break; default: break; }
SwitchWithDefault ==
  OneLineTree(<<0, 1, 2, 2, 4, 4, 2, 7>>,
              <<"Program", "SwitchStatement", "Identifier", "SwitchCase", "Literal",
                "BreakStatement", "SwitchCase", "BreakStatement">>,
              <<"", "", "x", "", "1", "", "default", "">>, FALSE)

\* process(node) is called on a node of a tree of the parser.
ComplexityInit ==
  /\ \/ ast \in {LogicalChain, SwitchWithDefault}
     \/ \E n \in 1..MaxBranchNodes : \E p \in ParentVecs(n) :
        \E sh \in [1..n -> BranchShapes \cup {<<"Program", "">>}] :
          /\ ast = OneLineTree(p, [i \in 1..n |-> sh[i][1]], [i \in 1..n |-> sh[i][2]],
                               FALSE)
          /\ WellFormed(ast)
  /\ ccNode \in Nodes(ast)
  /\ ccTotal = BaseComplexity
  /\ ccIdx = 1
  /\ ccPc = "traverse"

\* The traversal calls the callback on the next node.
ComplexityVisit ==
  /\ ccPc = "traverse"
  /\ ccIdx <= Len(Walked(ast, ccNode))
  /\ ccTotal' = IF isComplexityIncreasingNode(ast, Walked(ast, ccNode)[ccIdx])
                 THEN ccTotal + 1 ELSE ccTotal
  /\ ccIdx' = ccIdx + 1
  /\ UNCHANGED <<ast, ccNode, ccPc>>
  /\ ComplexityFrame

\* The traversal is over: `return complexity`.
ReturnComplexity ==
  /\ ccPc = "traverse"
  /\ ccIdx > Len(Walked(ast, ccNode))
  /\ ccPc' = "done"
  /\ UNCHANGED <<ast, ccNode, ccTotal, ccIdx>>
  /\ ComplexityFrame

ComplexityNext == ComplexityVisit \/ ReturnComplexity

(***************************************************************************)
(* HalsteadMetricsCalculator.process, one callback call at a time.         *)
(***************************************************************************)
HalsteadIdle ==
  /\ hNode = 0
  /\ hIdx = 0
  /\ hVolume = -1
  /\ hPc = "idle"

\* The most nodes of the enumerated trees the pass is driven on.
MaxGatherNodes == 3

\* Their nodes, <<type, token>>: the five operator expressions, identifiers
\* and a literal, the four node types with a rule of their own, and two
\* types no rule names.
HalsteadShapes ==
  {<<"BinaryExpression", "+">>, <<"LogicalExpression", "&&">>,
   <<"AssignmentExpression", "=">>, <<"UpdateExpression", "++">>,
   <<"UnaryExpression", "-">>, <<"Identifier", "a">>, <<"Identifier", "b">>,
   <<"Literal", "1">>, <<"MemberExpression", "">>, <<"CallExpression", "">>,
   <<"ConditionalExpression", "">>, <<"NewExpression", "">>,
   <<"ExpressionStatement", "">>, <<"ThisExpression", "">>}

\* obj.method(x);   the call holds x and its callee, the member access
\* obj.method (4), which holds obj and its property method.
\* c ? new X() : a[1];   the computed member access a[1] (8) holds a and
\* its property, the literal 1.
HalsteadScenarios ==
  {OneLineTree(<<0, 1, 2, 3, 3, 5, 5>>,
               <<"Program", "ExpressionStatement", "CallExpression", "Identifier",
                 "MemberExpression", "Identifier", "Identifier">>,
               <<"", "", "", "x", "", "obj", "method">>, FALSE),
   OneLineTree(<<0, 1, 2, 3, 3, 5, 3, 7, 7>>,
               <<"Program", "ExpressionStatement", "ConditionalExpression", "Identifier",
                 "NewExpression", "Identifier", "MemberExpression", "Identifier",
                 "Literal">>,
               <<"", "", "", "c", "", "X", "", "a", "1">>, FALSE)}

\* What an earlier call may have left in the singleton's `data`.
LeftoverData ==
  {EmptyData,
   [operators |-> {"+"}, operands |-> {"a", "z"}, operatorCount |-> 3,
    operandCount |-> 2]}

\* process(node) is called on a node of a tree of the parser.
HalsteadInit ==
  /\ \/ ast \in HalsteadScenarios
     \/ \E n \in 1..MaxGatherNodes : \E p \in ParentVecs(n) :
        \E sh \in [1..n -> HalsteadShapes \cup {<<"Program", "">>}] :
          /\ ast = OneLineTree(p, [i \in 1..n |-> sh[i][1]], [i \in 1..n |-> sh[i][2]],
                               FALSE)
          /\ WellFormed(ast)
  /\ hNode \in Nodes(ast)
  /\ halsteadData \in LeftoverData
  /\ hIdx = 0
  /\ hVolume = -1
  /\ hPc = "reset"

\* this.resetData()
HalsteadReset ==
  /\ hPc = "reset"
  /\ halsteadData' = resetData(halsteadData)
  /\ hIdx' = 1
  /\ hPc' = "gather"
  /\ UNCHANGED <<ast, hNode, hVolume>>
  /\ HalsteadFrame

\* The traversal of gatherMetrics calls the callback on the next node.
HalsteadVisit ==
  /\ hPc = "gather"
  /\ hIdx <= Len(Walked(ast, hNode))
  /\ halsteadData' = GatherNode(halsteadData, ast, Walked(ast, hNode)[hIdx])
  /\ hIdx' = hIdx + 1
  /\ UNCHANGED <<ast, hNode, hVolume, hPc>>
  /\ HalsteadFrame

\* The traversal is over: `return this.calculateVolume()`.
HalsteadReturn ==
  /\ hPc = "gather"
  /\ hIdx > Len(Walked(ast, hNode))
  /\ hVolume' = calculateVolume(halsteadData)
  /\ hPc' = "done"
  /\ UNCHANGED <<ast, hNode, hIdx, halsteadData>>
  /\ HalsteadFrame

HalsteadNext == HalsteadReset \/ HalsteadVisit \/ HalsteadReturn

(***************************************************************************)
(* The server's CallTool request handler (server.ts) around the handlers.  *)
(***************************************************************************)
NoResponse == [thrown |-> FALSE, isError |-> FALSE, text |-> ""]

ServerIdle ==
  /\ reqName = ""
  /\ srvResponse = NoResponse
  /\ srvPc = "idle"

\* The own properties of `handlers`: the three values of ToolName.
HandlerNames == ToolNames \cup {"typescript_analyze_directory"}

\* Properties `handlers`, an object literal, inherits from Object.prototype:
\* one that throws when called without a receiver and one that returns.
InheritedNames == {"valueOf", "toString"}

\* The names a client sends: the tools, a name nothing has, inherited names.
RequestNames == HandlerNames \cup {"no_such_tool"} \cup InheritedNames

\* A tools/call request has arrived.
ServerInit ==
  /\ reqName \in RequestNames
  /\ srvResponse = NoResponse
  /\ srvPc = "lookup"
  /\ ToolIdle
  /\ CalcIdle

\* handlers[name] is one of the three handlers: `return handler(args)`.
CallHandler ==
  /\ srvPc = "lookup"
  /\ reqName \in HandlerNames
  /\ \E f \in FormatsGiven : \E c \in ToolTexts : \E r \in BOOLEAN : \E inc \in BOOLEAN :
       /\ reqName = "typescript_analyze_text" => r /\ ~inc
       /\ reqName = "typescript_analyze_directory" => c = Unparsable /\ ~inc
       /\ args' = [tool |-> reqName, format |-> f, code |-> c, readable |-> r,
                   include_source |-> inc]
  /\ toolPc' = IF reqName = "typescript_analyze_directory" THEN "directory" ELSE "validate"
  /\ srvPc' = "handler"
  /\ UNCHANGED <<validatedArgs, toolResult, halsteadData, reqName, srvResponse>>
  /\ ServerFrame

\* handleAnalyzeDirectory(args): the schema rejects the arguments or the
\* directory (or a file in it) cannot be read, and the catch returns the
\* error result; or the formatted analysis is returned.
HandleAnalyzeDirectory ==
  /\ toolPc = "directory"
  /\ toolResult' =
       IF args.format \in FormatEnum \cup {"absent"} /\ args.readable
         THEN [isError |-> FALSE,
               content |-> <<[type |-> IF args.format = "table" THEN "text" ELSE "json",
                              kind |-> "directory", analysis |-> NoAnalysis]>>]
         ELSE [isError |-> TRUE, content |-> <<createErrorContent>>]
  /\ toolPc' = "done"
  /\ UNCHANGED <<args, validatedArgs, halsteadData, serverVars>>
  /\ ServerFrame

\* The handler's promise resolves: its result is the response.
Respond ==
  /\ srvPc = "handler"
  /\ toolPc = "done"
  /\ srvResponse' = [thrown |-> FALSE, isError |-> toolResult.isError,
                     text |-> IF toolResult.isError THEN "Error: ..." ELSE ""]
  /\ srvPc' = "done"
  /\ UNCHANGED <<reqName, toolVars, halsteadData>>
  /\ ServerFrame

\* if (!handler): nothing is found under the name.
UnknownTool ==
  /\ srvPc = "lookup"
  /\ reqName \notin HandlerNames \cup InheritedNames
  /\ srvResponse' = [thrown |-> FALSE, isError |-> TRUE, text |-> "Unknown tool: " \o reqName]
  /\ srvPc' = "done"
  /\ UNCHANGED <<reqName, toolVars, halsteadData>>
  /\ ServerFrame

\* handlers[name] is a function of Object.prototype: `return handler(args)`
\* calls it without a receiver.  valueOf throws a TypeError (no object to
\* convert), toString returns the string "[object Undefined]".
CallInherited ==
  /\ srvPc = "lookup"
  /\ reqName \in InheritedNames
  /\ srvResponse' =
       IF reqName = "valueOf"
         THEN [thrown |-> TRUE, isError |-> FALSE, text |-> "TypeError"]
         ELSE [thrown |-> FALSE, isError |-> FALSE, text |-> "[object Undefined]"]
  /\ srvPc' = "done"
  /\ UNCHANGED <<reqName, toolVars, halsteadData>>
  /\ ServerFrame

ServerNext ==
  \/ CallHandler \/ UnknownTool \/ CallInherited \/ HandleAnalyzeDirectory
  \/ SchemaParse \/ ReadFile \/ ReturnContent \/ ReturnError \/ Respond


(***************************************************************************)
(* Process start and shutdown (server.ts 1104-1148, entry point            *)
(* utils.ts 239-245).  startup installs the listeners, registers the       *)
(* handler that closes the transport and connects; shutdown sets the flag, *)
(* calls every registered handler, awaits them all and exits.              *)
(***************************************************************************)
Running == 0 - 1

\* The handlers startup can register: the one that closes the transport.
CleanupNames == {"closeTransport"}

\* What the listeners of startup pass on: process.on(...) lines 1109-1112.
ListenerReasons == {"SIGINT", "SIGTERM", "uncaughtException", "unhandledRejection"}

MaxTriggers == 3

ShutdownIdle ==
  /\ shuttingDown = FALSE
  /\ cleanupHandlers = {}
  /\ invoked = [h \in CleanupNames |-> 0]
  /\ handlerPromise = [h \in CleanupNames |-> "none"]
  /\ awaiting = FALSE
  /\ exitCode = Running
  /\ startPc = "notStarted"
  /\ firstReason = ""
  /\ triggerCount = 0

ShutdownInit == ShutdownIdle

\* `if (shuttingDown) return;` (line 1135).
AlreadyShuttingDown(flag) == flag

\* shutdown(reason) up to its await: the flag is tested and set, then
\* Array.from(cleanupHandlers).map((h) => h()) calls every registered handler
\* (lines 1135-1140).  `settled` is the promise each call returns.
shutdown(reason, settled) ==
  IF AlreadyShuttingDown(shuttingDown)
    THEN UNCHANGED <<shuttingDown, invoked, handlerPromise, awaiting, firstReason>>
    ELSE /\ shuttingDown' = TRUE
         /\ firstReason' = reason
         /\ invoked' = [h \in CleanupNames |->
                          IF h \in cleanupHandlers THEN invoked[h] + 1 ELSE invoked[h]]
         /\ handlerPromise' = [h \in CleanupNames |->
                                 IF h \in cleanupHandlers THEN settled ELSE handlerPromise[h]]
         /\ awaiting' = TRUE

\* Promise.all over the handlers that were called: rejected as soon as one is,
\* resolved when all are (and at once when none was called).
PromiseAll ==
  IF \E h \in CleanupNames : handlerPromise[h] = "rejected" THEN "rejected"
  ELSE IF \E h \in CleanupNames : handlerPromise[h] = "pending" THEN "pending"
  ELSE "resolved"

\* startup() runs to its first await (lines 1107-1116).
Startup ==
  /\ startPc = "notStarted"
  /\ startPc' = "creating"
  /\ UNCHANGED <<shuttingDown, cleanupHandlers, invoked, handlerPromise, awaiting, exitCode,
                 firstReason, triggerCount>>
  /\ ShutdownFrame

\* createServer() returns and the handler is registered (lines 1116-1120).
RegisterCleanup ==
  /\ exitCode = Running
  /\ startPc = "creating"
  /\ cleanupHandlers' = cleanupHandlers \cup {"closeTransport"}
  /\ startPc' = "connecting"
  /\ UNCHANGED <<shuttingDown, invoked, handlerPromise, awaiting, exitCode, firstReason,
                 triggerCount>>
  /\ ShutdownFrame

\* server.connect(transport) resolves (lines 1122-1124).
ConnectReturns ==
  /\ exitCode = Running
  /\ startPc = "connecting"
  /\ startPc' = "connected"
  /\ UNCHANGED <<shuttingDown, cleanupHandlers, invoked, handlerPromise, awaiting, exitCode,
                 firstReason, triggerCount>>
  /\ ShutdownFrame

\* server.connect(transport) rejects: the catch calls shutdown("startup failed")
\* (lines 1125-1130).
ConnectFails ==
  /\ exitCode = Running
  /\ startPc = "connecting"
  /\ startPc' = "failed"
  /\ shutdown("startup failed", "pending")
  /\ UNCHANGED <<cleanupHandlers, exitCode, triggerCount>>
  /\ ShutdownFrame

\* A signal, an uncaught exception or an unhandled rejection reaches its
\* listener while the process lives.
Trigger ==
  /\ exitCode = Running
  /\ startPc \in {"connecting", "connected", "failed"}
  /\ triggerCount < MaxTriggers
  /\ \E reason \in ListenerReasons : shutdown(reason, "pending")
  /\ triggerCount' = triggerCount + 1
  /\ UNCHANGED <<cleanupHandlers, exitCode, startPc>>
  /\ ShutdownFrame

\* A handler's promise settles: transport.close() resolved or rejected.
HandlerSettles ==
  /\ exitCode = Running
  /\ \E h \in CleanupNames, outcome \in {"resolved", "rejected"} :
       /\ handlerPromise[h] = "pending"
       /\ handlerPromise' = [handlerPromise EXCEPT ![h] = outcome]
  /\ UNCHANGED <<shuttingDown, cleanupHandlers, invoked, awaiting, exitCode, startPc,
                 firstReason, triggerCount>>
  /\ ShutdownFrame

\* The suspended call of shutdown resumes (lines 1141-1147): process.exit(1)
\* from the catch, process.exit(0) otherwise.  process.exit emits 'exit', whose
\* listener calls shutdown("exit"), which returns at the flag.
CleanupResumes ==
  /\ exitCode = Running
  /\ awaiting
  /\ PromiseAll # "pending"
  /\ exitCode' = IF PromiseAll = "rejected" THEN 1 ELSE 0
  /\ awaiting' = FALSE
  /\ UNCHANGED <<shuttingDown, cleanupHandlers, invoked, handlerPromise, startPc,
                 firstReason, triggerCount>>
  /\ ShutdownFrame

\* The event loop runs empty (the client closed stdin) while no call of
\* shutdown is suspended, and the process ends with code 0.  'exit' is emitted and its listener calls shutdown("exit")
\* (line 1113); what that call awaits never resumes, the process ends when the
\* listeners have returned.  A handler called here has returned a promise that
\* is still pending, or that rejects because transport.close() failed.
ProcessExits ==
  /\ exitCode = Running
  /\ startPc = "connected"
  /\ ~awaiting
  /\ \E settled \in {"pending", "rejected"} : shutdown("exit", settled)
  /\ exitCode' = 0
  /\ triggerCount' = triggerCount + 1
  /\ UNCHANGED <<cleanupHandlers, startPc>>
  /\ ShutdownFrame

ShutdownNext ==
  \/ Startup \/ RegisterCleanup \/ ConnectReturns \/ ConnectFails \/ Trigger
  \/ HandlerSettles \/ CleanupResumes \/ ProcessExits

(***************************************************************************)
(* The specifications: each drives one part of the engine.                 *)
(***************************************************************************)
InitDepth ==
  /\ DepthInit /\ TreeIdle /\ WalkIdle /\ CalcIdle /\ FunIdle /\ FileIdle /\ CallsIdle
  /\ DirIdle /\ LinesIdle
  /\ IndexIdle
  /\ GrowIdle
  /\ ToolIdle
  /\ FindIdle
  /\ ComplexityIdle
  /\ HalsteadIdle
  /\ ServerIdle
  /\ ShutdownIdle
SpecDepth == InitDepth /\ [][DepthNext]_vars

InitWalk ==
  WalkInit /\ DepthIdle /\ CalcIdle /\ FunIdle /\ FileIdle /\ CallsIdle /\ DirIdle /\ LinesIdle /\ IndexIdle /\ GrowIdle /\ ToolIdle /\ FindIdle /\ ComplexityIdle /\ HalsteadIdle /\ ServerIdle /\ ShutdownIdle
SpecWalk == InitWalk /\ [][WalkNext]_vars

InitFunctions ==
  FunctionsInit /\ FileIdle /\ WalkIdle /\ DepthIdle /\ CallsIdle /\ DirIdle /\ LinesIdle /\ IndexIdle /\ GrowIdle /\ ToolIdle /\ FindIdle /\ ComplexityIdle /\ HalsteadIdle /\ ServerIdle /\ ShutdownIdle
SpecFunctions == InitFunctions /\ [][FunctionsNext]_vars

InitFile == FileInit /\ WalkIdle /\ DepthIdle /\ CallsIdle /\ DirIdle /\ LinesIdle /\ IndexIdle /\ GrowIdle /\ ToolIdle /\ FindIdle /\ ComplexityIdle /\ HalsteadIdle /\ ServerIdle /\ ShutdownIdle
SpecFile == InitFile /\ [][FileNext]_vars

InitCalls ==
  /\ CallsInit /\ TreeIdle /\ WalkIdle /\ FunIdle /\ FileIdle /\ DepthIdle /\ DirIdle
  /\ LinesIdle
  /\ IndexIdle
  /\ GrowIdle
  /\ ToolIdle
  /\ FindIdle
  /\ ComplexityIdle
  /\ HalsteadIdle
  /\ ServerIdle
  /\ ShutdownIdle
SpecCalls == InitCalls /\ [][CallsNext]_vars

InitDirectory ==
  /\ DirInit /\ TreeIdle /\ WalkIdle /\ FunIdle /\ FileIdle /\ DepthIdle /\ CallsIdle
  /\ LinesIdle
  /\ IndexIdle
  /\ GrowIdle
  /\ ToolIdle
  /\ FindIdle
  /\ ComplexityIdle
  /\ HalsteadIdle
  /\ ServerIdle
  /\ ShutdownIdle
SpecDirectory == InitDirectory /\ [][DirNext]_vars

InitLines ==
  LinesInit /\ CalcIdle /\ WalkIdle /\ FunIdle /\ FileIdle /\ DepthIdle /\ CallsIdle /\ DirIdle /\ IndexIdle /\ GrowIdle /\ ToolIdle /\ FindIdle /\ ComplexityIdle /\ HalsteadIdle /\ ServerIdle /\ ShutdownIdle
SpecLines == InitLines /\ [][LinesNext]_vars

InitIndex ==
  /\ IndexInit /\ TreeIdle /\ CalcIdle /\ WalkIdle /\ FunIdle /\ FileIdle /\ DepthIdle
  /\ CallsIdle /\ DirIdle /\ LinesIdle
  /\ GrowIdle
  /\ ToolIdle
  /\ FindIdle
  /\ ComplexityIdle
  /\ HalsteadIdle
  /\ ServerIdle
  /\ ShutdownIdle
SpecIndex == InitIndex /\ [][IndexNext]_vars

InitGrow ==
  /\ GrowInit /\ WalkIdle /\ FunIdle /\ FileIdle /\ DepthIdle /\ CallsIdle /\ DirIdle
  /\ LinesIdle /\ IndexIdle
  /\ ToolIdle
  /\ FindIdle
  /\ ComplexityIdle
  /\ HalsteadIdle
  /\ ServerIdle
  /\ ShutdownIdle
SpecGrow == InitGrow /\ [][GrowNext]_vars

InitTool ==
  /\ ToolInit /\ TreeIdle /\ WalkIdle /\ FunIdle /\ FileIdle /\ DepthIdle /\ CallsIdle
  /\ DirIdle /\ LinesIdle /\ IndexIdle /\ GrowIdle
  /\ FindIdle
  /\ ComplexityIdle
  /\ HalsteadIdle
  /\ ServerIdle
  /\ ShutdownIdle
SpecTool == InitTool /\ [][ToolNext]_vars

InitFind ==
  /\ FindInit /\ TreeIdle /\ CalcIdle /\ WalkIdle /\ FunIdle /\ FileIdle /\ DepthIdle
  /\ CallsIdle /\ DirIdle /\ LinesIdle /\ IndexIdle /\ GrowIdle /\ ToolIdle
  /\ ComplexityIdle
  /\ HalsteadIdle
  /\ ServerIdle
  /\ ShutdownIdle
SpecFind == InitFind /\ [][FindNext]_vars

InitComplexity ==
  /\ ComplexityInit /\ CalcIdle /\ WalkIdle /\ FunIdle /\ FileIdle /\ DepthIdle
  /\ CallsIdle /\ DirIdle /\ LinesIdle /\ IndexIdle /\ GrowIdle /\ ToolIdle /\ FindIdle
  /\ HalsteadIdle
  /\ ServerIdle
  /\ ShutdownIdle
SpecComplexity == InitComplexity /\ [][ComplexityNext]_vars

InitHalstead ==
  /\ HalsteadInit /\ WalkIdle /\ FunIdle /\ FileIdle /\ DepthIdle /\ CallsIdle /\ DirIdle
  /\ LinesIdle /\ IndexIdle /\ GrowIdle /\ ToolIdle /\ FindIdle /\ ComplexityIdle
  /\ ServerIdle
  /\ ShutdownIdle
SpecHalstead == InitHalstead /\ [][HalsteadNext]_vars

InitServer ==
  /\ ServerInit /\ TreeIdle /\ WalkIdle /\ FunIdle /\ FileIdle /\ DepthIdle /\ CallsIdle
  /\ DirIdle /\ LinesIdle /\ IndexIdle /\ GrowIdle /\ FindIdle /\ ComplexityIdle
  /\ HalsteadIdle
  /\ ShutdownIdle
SpecServer == InitServer /\ [][ServerNext]_vars


InitShutdown ==
  /\ ShutdownInit /\ TreeIdle /\ WalkIdle /\ CalcIdle /\ FunIdle /\ FileIdle /\ DepthIdle
  /\ CallsIdle /\ DirIdle /\ LinesIdle /\ IndexIdle /\ GrowIdle /\ ToolIdle /\ FindIdle
  /\ ComplexityIdle /\ HalsteadIdle /\ ServerIdle
SpecShutdown == InitShutdown /\ [][ShutdownNext]_vars


(***************************************************************************)
(* What the type graph of a file means, for the claims below.              *)
(***************************************************************************)
DeclaredNames == {decls[i].name : i \in 1..Len(decls)}

ParentsOf(n) == UNION {Range(decls[i].parents) : i \in {j \in 1..Len(decls) : decls[j].name = n}}

\* Every identifier the type graph mentions, declared or not.
DistinctTypeNames == DeclaredNames \cup UNION {ParentsOf(n) : n \in DeclaredNames}

RECURSIVE Ancestors(_, _)
Ancestors(frontier, seen) ==
  LET next == UNION {ParentsOf(n) : n \in frontier} \ seen
  IN IF next = {} THEN seen ELSE Ancestors(next, seen \cup next)

ProperAncestors(n) == Ancestors({n}, {})

Acyclic == \A n \in DeclaredNames : n \notin ProperAncestors(n)

AllParentsDeclared == \A n \in DeclaredNames : ParentsOf(n) \subseteq DeclaredNames

\* Longest chain of extension edges that ends at n (defined on acyclic graphs).
RECURSIVE ChainDepth(_)
ChainDepth(n) ==
  IF n \notin DeclaredNames THEN 1
  ELSE 1 + SetMax({ChainDepth(p) : p \in ParentsOf(n)})

\* class T1 {} ; class T2 extends T1 {} ; class T3 extends T2 {} ; class T4 extends T3 {}
LinearChainOfFour ==
  decls = << [name |-> 1, parents |-> <<>>], [name |-> 2, parents |-> <<1>>],
             [name |-> 3, parents |-> <<2>>], [name |-> 4, parents |-> <<3>>] >>

(***************************************************************************)
(* C1.  calculateInheritanceDepth terminates for every type graph, also    *)
(* one with a cycle: the relaxation stops after a number of passes bounded *)
(* by the number of distinct type names (and a cycle is reported).         *)
(* The code has no pass bound: on a cycle every pass raises a depth and    *)
(* sets changed again, so the number of passes exceeds every bound tied to *)
(* the number of type names.                                               *)
(***************************************************************************)
C1_PassesBoundedByTypeNames ==
  passes <= Cardinality(DistinctTypeNames) + 1

(***************************************************************************)
(* C3.  On an acyclic type graph whose parent names are all declared, the  *)
(* depth of a type is 1 + the maximum depth of its parents (1 without      *)
(* parent) and the result is the maximum over all named types, 0 when      *)
(* there is none; a linear chain of four returns 4; a type with two        *)
(* parents of depth 1 has depth 2.                                         *)
(***************************************************************************)
C3_DepthIsLongestChain ==
  (dpc = "done" /\ Acyclic /\ AllParentsDeclared) =>
    /\ DOMAIN inheritanceMap = DeclaredNames
    /\ \A n \in DeclaredNames :
         /\ inheritanceMap[n] = ChainDepth(n)
         /\ ParentsOf(n) = {} => inheritanceMap[n] = 1
         /\ (Cardinality(ParentsOf(n)) = 2 /\ \A p \in ParentsOf(n) : inheritanceMap[p] = 1)
              => inheritanceMap[n] = 2
    /\ depthResult = SetMax({ChainDepth(n) : n \in DeclaredNames})
    /\ DeclaredNames = {} => depthResult = 0
    /\ LinearChainOfFour => depthResult = 4

\* A child declared before its parents: the chain T1 -> T2 -> T3 -> T4 in
\* reverse order, relaxed to depth 4.
C3_Witness ==
  /\ dpc = "done"
  /\ decls = << [name |-> 1, parents |-> <<2>>], [name |-> 2, parents |-> <<3>>],
                [name |-> 3, parents |-> <<4>>], [name |-> 4, parents |-> <<>>] >>
  /\ depthResult = 4
  /\ passes > 2


(***************************************************************************)
(* C6: walk(root, visit) terminates and calls visit exactly once on each   *)
(* node of the subtree of root, in depth-first pre-order, on every tree of *)
(* the node model, the ones whose nodes carry a parent back-reference      *)
(* included: the recursion never runs out of stack, no node is visited     *)
(* twice, and a finished walk has visited the nodes in pre-order.          *)
(***************************************************************************)
C6_WalkVisitsEachNodeOnce ==
  /\ wpc # "overflow"
  /\ \A i, j \in 1..Len(visits) : visits[i] = visits[j] => i = j
  /\ wpc = "done" => visits = PreOrderFrom(ast, 1)


\* The nodes a unit is due for: the function-like nodes but the function
\* that is the value of a method definition.
IsMethodValue(t, x) ==
  /\ x # 1
  /\ t.type[t.parent[x]] = "MethodDefinition"
  /\ x = LastChild(t, t.parent[x])

UnitNodes(t) == {x \in Nodes(t) : isFunctionLike(t, x) /\ ~IsMethodValue(t, x)}

UnitsOf(x) == {i \in 1..Len(functions) : functions[i].node = x}

(***************************************************************************)
(* C2: analyzeFunctions emits exactly one unit for every function-like     *)
(* node that has a source span.  A method definition and its function      *)
(* value give one unit of kind "method" that spans the method definition's *)
(* lines; the value is never emitted again as a "function" unit; without   *)
(* spans nothing is emitted.                                               *)
(***************************************************************************)
C2_OneUnitPerFunction ==
  fpc = "done" =>
    IF ast.hasLoc
      THEN /\ \A x \in UnitNodes(ast) : Cardinality(UnitsOf(x)) = 1
           /\ \A i \in 1..Len(functions) :
                /\ functions[i].node \in UnitNodes(ast)
                /\ functions[i].type = getFunctionType(ast, functions[i].node)
                /\ functions[i].startLine = ast.line[functions[i].node]
                /\ functions[i].endLine = EndLine(ast, functions[i].node)
           /\ \A x \in Nodes(ast) :
                ast.type[x] = "MethodDefinition" =>
                  /\ \A i \in UnitsOf(x) : functions[i].type = "method"
                  /\ UnitsOf(LastChild(ast, x)) = {}
      ELSE functions = <<>>

\* A class method inside a function: two units, the method's of kind
\* "method", none for the method's function value.
C2_Witness ==
  /\ fpc = "done"
  /\ ast.hasLoc
  /\ ast.n = 4
  /\ ast.type = <<"Program", "FunctionDeclaration", "MethodDefinition", "FunctionExpression">>
  /\ ast.parent = <<0, 1, 2, 3>>
  /\ Len(functions) = 2
  /\ functions[2].type = "method"

\* The start lines of the units in the order the traversal met their nodes.
DiscoveryIndex(x) == CHOOSE i \in 1..Len(Walked(ast, 1)) : Walked(ast, 1)[i] = x

DiscoveredLines ==
  LET w == SelectSeq(Walked(ast, 1), LAMBDA x : x \in UnitNodes(ast))
  IN [i \in 1..Len(w) |-> ast.line[w[i]]]

ResultLines == [i \in 1..Len(functions) |-> functions[i].startLine]

(***************************************************************************)
(* C7: the list analyzeFunctions returns is in ascending order of          *)
(* startLine, and units of the same startLine are in the order in which    *)
(* the pre-order traversal discovered them; discovery at lines 3, 1, 2     *)
(* (50, 10, 30) gives the list [1, 2, 3] ([10, 30, 50]).                   *)
(***************************************************************************)
C7_SortedByStartLineStable ==
  (fpc = "done" /\ ast.hasLoc) =>
    /\ \A i, j \in 1..Len(functions) :
         i < j =>
           \/ functions[i].startLine < functions[j].startLine
           \/ /\ functions[i].startLine = functions[j].startLine
              /\ DiscoveryIndex(functions[i].node) < DiscoveryIndex(functions[j].node)
    /\ DiscoveredLines = <<3, 1, 2>> => ResultLines = <<1, 2, 3>>

C7_Witness ==
  /\ fpc = "done"
  /\ ast.hasLoc
  /\ DiscoveredLines = <<3, 1, 2>>
  /\ ResultLines = <<1, 2, 3>>


(***************************************************************************)
(* C8: in every FileAnalysis analyzeFile returns, on the success path and  *)
(* on the parse-failure path alike, fileMetrics.methodCount equals the     *)
(* length of the functions list.                                           *)
(***************************************************************************)
C8_MethodCountIsFunctionsLength ==
  apc = "done" => analysis.fileMetrics.methodCount = Len(analysis.functions)

C8_Witness ==
  /\ apc = "done"
  /\ code.ok
  /\ analysis.fileMetrics.methodCount = 2
  /\ Len(analysis.functions) = 2

RECURSIVE SumOfUnits(_, _)
SumOfUnits(fs, i) ==
  IF i = 0 THEN 0 ELSE fs[i].metrics.cyclomaticComplexity + SumOfUnits(fs, i - 1)

C10_ComplexityAtLeastOne ==
  apc = "done" =>
    /\ analysis.fileMetrics.cyclomaticComplexity >= 1
    /\ \A i \in 1..Len(analysis.functions) :
         analysis.functions[i].metrics.cyclomaticComplexity >= 1

(***************************************************************************)
(* C10, amended: on the success path of analyzeFile the file-level record  *)
(* and every function-level record have cyclomaticComplexity >= 1; on the  *)
(* failure path (the parser rejects the text, or a traversal throws) the   *)
(* file-level record is the zero record, with cyclomaticComplexity 0, and  *)
(* there is no function-level record.                                      *)
(***************************************************************************)
C10_ComplexityAtLeastOneOnSuccess ==
  apc = "done" =>
    IF code.ok /\ ~Overflows(code.tree)
      THEN /\ analysis.fileMetrics.cyclomaticComplexity >= 1
           /\ \A i \in 1..Len(analysis.functions) :
                analysis.functions[i].metrics.cyclomaticComplexity >= 1
      ELSE /\ analysis.fileMetrics.cyclomaticComplexity = 0
           /\ analysis.functions = <<>>

\* A file without a branch, with one function: both records have
\* complexity 1, the base.
C10_Witness ==
  /\ apc = "done"
  /\ code.ok
  /\ analysis.fileMetrics.cyclomaticComplexity = 1
  /\ Len(analysis.functions) = 1
  /\ analysis.functions[1].metrics.cyclomaticComplexity = 1


\* What a calculator returns on a tree when nothing was called before it.
FreshResult(c, t) ==
  CASE c = "halstead" -> HalsteadProcess(EmptyData, t, 1).volume
    [] c = "complexity" -> ComplexityProcess(t, 1)
    [] c = "loc" -> countLogicalLinesOfCode(t, 1)
    [] c = "functions" -> analyzeFunctions(EmptyData, t).functions

(***************************************************************************)
(* C4: in any sequence of calls of the Halstead, complexity, LOC and       *)
(* function analyzers on any trees, the result of a call depends on its    *)
(* own tree only: all the calls of a calculator on the same tree return    *)
(* the same result, the one a first call returns, whatever was called on   *)
(* other trees before or in between.                                       *)
(***************************************************************************)
C4_ResultDependsOnlyOnTree ==
  \A c \in Calculators :
    /\ Cardinality(callResults[c]) <= 1
    /\ callResults[c] \subseteq {FreshResult(c, callSubject)}

\* Every calculator has measured the subject, a function with an operand;
\* the subject was measured, then a tree with an operand of its own, then
\* the subject again.
C4_Witness ==
  /\ callPhase = 3
  /\ \A c \in Calculators : callResults[c] # {}
  /\ callSubject.type = <<"Program", "FunctionDeclaration", "Identifier">>
  /\ callSubject.parent = <<0, 1, 2>>
  /\ callOther.type = <<"Program", "Identifier">>

\* The FileAnalysis of a file analysed alone, by an engine nothing has run on.
AloneAnalysis(f) == analyzeFile(EmptyData, f).analysis

C11_EachNodeCountedOnce ==
  locPc \in {"traverse", "done"} =>
    /\ lloc = Cardinality({y \in locProcessed : isExecutableLine(ast, y)})
    /\ locProcessed \subseteq Subtree(ast, locNode)
    /\ locPc = "done" =>
         /\ locProcessed = Subtree(ast, locNode)
         /\ lloc = countLogicalLinesOfCode(ast, locNode)
         /\ lloc <= Cardinality(Subtree(ast, locNode))

\* The count of a function declaration whose block holds an if statement is
\* returned: the declaration and the statement, one each.
C11_Witness ==
  /\ locPc = "done"
  /\ ast.type[locNode] = "FunctionDeclaration"
  /\ \E b \in ChildSet(ast, locNode) :
       /\ b = LastChild(ast, locNode)
       /\ ast.type[b] = "BlockStatement"
       /\ \E s \in ChildSet(ast, b) : ast.type[s] = "IfStatement"
  /\ lloc = 2

(***************************************************************************)
(* The scenarios.                                                          *)
(***************************************************************************)
\* The units returned for the file whose tree is t.
UnitsReturnedFor(t) ==
  IF apc = "done" /\ code.ok /\ code.tree = t THEN Range(analysis.functions) ELSE {}

EmptyBody(t, x) ==
  \A y \in Subtree(t, x) \ {x} :
    \/ t.type[y] = "Identifier"
    \/ t.type[y] = "BlockStatement" /\ ChildSet(t, y) = {}

EmptyUnitsReturned ==
  IF apc = "done" /\ code.ok
    THEN {u \in Range(analysis.functions) : EmptyBody(code.tree, u.on)}
    ELSE {}

\* 100 * (171 - 0.23) / 171, in thousandths.
IndexOfEmptyUnit == ((1710000 - 2300) * 10) \div 171

C14_IndexWithin0And100 ==
  miPc = "done" => miResult >= 0 /\ miResult <= 100000

\* A call whose raw index is negative (complexity 1000) has returned 0, and
\* the arguments were not trivial.
C14_Witness ==
  /\ miPc = "done"
  /\ miComplexity = 1000
  /\ miLines = MaxLines
  /\ Cardinality(miData.operators) + Cardinality(miData.operands) > 1
  /\ miResult = 0

(***************************************************************************)
(* The Halstead volume of a growing subtree.                               *)
(***************************************************************************)
Vocabulary(d) == Cardinality(d.operators) + Cardinality(d.operands)
Length(d) == d.operatorCount + d.operandCount

\* C15: adding a node that contributes a new distinct operator or operand
\* token to a subtree never decreases the Halstead volume.  The length and
\* the vocabulary both grow by one, and the volume grows unless the subtree
\* had no token.
C15_VolumeNeverDecreases ==
  growPc = "done" =>
    /\ growAfter.volume >= growBefore.volume
    /\ Length(growAfter.data) = Length(growBefore.data) + 1
    /\ Vocabulary(growAfter.data) = Vocabulary(growBefore.data) + 1
    /\ Vocabulary(growBefore.data) > 0 => growAfter.volume > growBefore.volume

\* An identifier b was added to a subtree holding the tokens + and a; the
\* volume went from 2 * log2(2) to 3 * log2(3).
C15_Witness ==
  /\ growPc = "done"
  /\ growBefore.volume = 2000
  /\ growAfter.volume = 3 * 1585
  /\ "b" \in growAfter.data.operands \ growBefore.data.operands

(***************************************************************************)
(* The names of the units.                                                 *)
(***************************************************************************)
\* The name the rule gives the unit emitted for node x of tree t, the
\* immediate parent of x being the node that holds it.
NameByKindAndParent(t, x) ==
  LET holder == t.parent[x]
  IN CASE t.type[x] = "FunctionDeclaration" ->
            IF FirstChild(t, x) # 0 /\ t.type[FirstChild(t, x)] = "Identifier"
              THEN t.tok[FirstChild(t, x)] ELSE "<anonymous>"
       [] t.type[x] = "MethodDefinition" -> KeyName(t, x)
       [] OTHER ->
            IF holder # 0 /\ t.type[holder] = "VariableDeclarator"
                 /\ t.type[FirstChild(t, holder)] = "Identifier"
              THEN t.tok[FirstChild(t, holder)]
            ELSE IF t.type[x] = "ArrowFunctionExpression" THEN "<arrow>"
            ELSE "<anonymous>"

\* C16: the name of a unit is inferred from its kind and its immediate
\* parent only: a function declaration takes its identifier, a method its
\* key when the key is a plain identifier and <computed> otherwise, an arrow
\* function or function expression the identifier of a variable declarator
\* that is its immediate parent, and otherwise <arrow> or <anonymous>.
C16_NameFromKindAndParent ==
  fpc = "done" =>
    \A i \in 1..Len(functions) :
      functions[i].name = NameByKindAndParent(ast, functions[i].node)

\* The rule holds of every unit that is not held by a variable declarator.
C16_NameWhenNotDeclared ==
  fpc = "done" =>
    \A i \in 1..Len(functions) :
      LET x == functions[i].node
      IN ast.type[ast.parent[x]] # "VariableDeclarator" =>
           functions[i].name = NameByKindAndParent(ast, x)

\* Whatever the tree builder does, no unit is named after its declarator:
\* without back-references the name is <arrow> or <anonymous>, and with
\* them analyzeFunctions throws.
C16_NeverNamedAfterDeclarator ==
  /\ fpc = "done" =>
       \A i \in 1..Len(functions) :
         ast.type[ast.parent[functions[i].node]] = "VariableDeclarator" =>
           functions[i].name \in {"<arrow>", "<anonymous>"}
  /\ ast.parentLinks /\ ast.n > 1 => fpc # "done"

(***************************************************************************)
(* The output formats of the tools.                                        *)
(***************************************************************************)
\* C18: every tool accepts the output formats `text` and `table`: a call of
\* typescript_analyze_text or typescript_analyze_file (on a readable file)
\* with format "text" or "table" returns the analysis, not an error.
C18_TextAndTableAccepted ==
  toolPc = "done" /\ args.format \in {"text", "table"} /\ args.readable =>
    /\ ~toolResult.isError
    /\ toolResult.content[1].analysis = analyzeFile(EmptyData, args.code).analysis

\* The formats that are accepted are `json` (also the default) and `table`:
\* with them the analysis is returned, as a table for `table` and as the
\* record itself otherwise; any other value is answered with an error.
C18_JsonAndTableAccepted ==
  toolPc = "done" /\ args.readable =>
    IF args.format \in {"json", "table", "absent"}
      THEN /\ ~toolResult.isError
           /\ toolResult.content[1].analysis = analyzeFile(EmptyData, args.code).analysis
           /\ toolResult.content[1].kind = IF args.format = "table" THEN "table" ELSE "json"
      ELSE /\ toolResult.isError
           /\ toolResult.content = <<createErrorContent>>

(***************************************************************************)
(* The files a directory analysis covers.                                  *)
(***************************************************************************)
\* C19: typescript_analyze_directory analyses exactly the .ts and .tsx files
\* below the directory that match none of the .gitignore patterns, the
\* default ignored patterns and the call's ignore_patterns.
C19_AnalysesExactlyUnignoredFiles ==
  findPc = "done" =>
    Range(files) = {i \in 1..Len(entries) : entries[i].ts /\ entries[i].matches = {}}

\* What is analysed: the .ts and .tsx files that match neither the
\* .gitignore patterns nor the defaults, whatever the call's patterns.
C19_CallPatternsNotApplied ==
  findPc = "done" =>
    Range(files) = {i \in 1..Len(entries) :
                      entries[i].ts /\ entries[i].matches \cap {"gitignore", "default"} = {}}

(***************************************************************************)
(* Failures inside analyzeFile.                                            *)
(***************************************************************************)
\* The try block of analyzeFile fails on this text: the parser rejects it,
\* or a traversal of its tree throws.
AnalysisFails(c) == ~c.ok \/ Overflows(c.tree)

\* C17: when parsing fails or any exception is thrown while analysing,
\* analyzeFile does not throw: it returns a FileAnalysis whose metrics are
\* all 0 and whose function list is empty.  (Where the parser or a traversal
\* has thrown, the catch block is the step that follows, and the call of a
\* failing text returns zeros.)
C17_FailureReturnsEmptyAnalysis ==
  /\ apc = "parse" /\ ~code.ok => ENABLED ParseThrows
  /\ apc = "functions" /\ fpc = "overflow" => ENABLED AnalysisThrows
  /\ apc = "done" /\ AnalysisFails(code) =>
       /\ \A k \in DOMAIN analysis.fileMetrics : analysis.fileMetrics[k] = 0
       /\ DOMAIN analysis.fileMetrics =
            {"linesOfCode", "cyclomaticComplexity", "maintainabilityIndex", "classCount",
             "methodCount", "averageMethodComplexity", "depthOfInheritance"}
       /\ analysis.functions = <<>>

\* The analysis of a text whose tree makes the traversal throw has returned
\* the empty analysis.
C17_Witness ==
  /\ apc = "done"
  /\ code.ok
  /\ Overflows(code.tree)
  /\ fpc = "overflow"
  /\ analysis.fileMetrics.linesOfCode = 0
  /\ analysis.functions = <<>>

(***************************************************************************)
(* The cyclomatic complexity.                                              *)
(***************************************************************************)
\* The nodes of the subtree of x that the rule counts.
BranchNodes(t, x) ==
  {y \in Subtree(t, x) :
     \/ t.type[y] \in {"IfStatement", "ForStatement", "ForInStatement", "ForOfStatement",
                       "WhileStatement", "DoWhileStatement", "CatchClause",
                       "ConditionalExpression", "TryStatement", "ThrowStatement"}
     \/ t.type[y] = "SwitchCase" /\ t.tok[y] # "default"
     \/ t.type[y] = "LogicalExpression" /\ t.tok[y] \in {"&&", "||", "??"}}

\* C20: the cyclomatic complexity of a subtree is 1 plus the number of its
\* nodes that are an if, for, for-in, for-of, while or do-while statement, a
\* catch clause, a conditional expression, a try statement, a throw
\* statement, a switch case with a test, or a logical expression with &&,
\* || or ??; a default case adds nothing and a && b && c adds 2.
C20_ComplexityIsOnePlusBranchNodes ==
  ccPc = "done" =>
    /\ ccTotal = 1 + Cardinality(BranchNodes(ast, ccNode))
    /\ ccTotal = ComplexityProcess(ast, ccNode)
    /\ ast = LogicalChain /\ ccNode = 1 => ccTotal = 1 + 2
    /\ ast = SwitchWithDefault /\ ccNode = 1 => ccTotal = 1 + 1

\* The complexity of the switch with one case and a default is returned: 2.
C20_Witness ==
  /\ ccPc = "done"
  /\ ast = SwitchWithDefault
  /\ ccNode = 1
  /\ ccTotal = 2

(***************************************************************************)
(* The per-node rules of the Halstead pass, as sets of nodes.              *)
(***************************************************************************)
\* Whether the distinguished field of y (callee, property) is a plain identifier.
FieldIsIdentifier(t, y) ==
  ChildSet(t, y) # {} /\ t.type[LastChild(t, y)] = "Identifier"

\* The nodes that add an operator, and the operator each adds.
OperatorNodes(t, x) ==
  {y \in Subtree(t, x) :
     \/ t.type[y] \in OperatorTypes \cup {"ConditionalExpression", "NewExpression"}
     \/ t.type[y] = "CallExpression" /\ FieldIsIdentifier(t, y)}

OperatorOf(t, y) ==
  CASE t.type[y] = "ConditionalExpression" -> "?:"
    [] t.type[y] = "NewExpression" -> "new"
    [] t.type[y] = "CallExpression" -> t.tok[LastChild(t, y)] \o "()"
    [] OTHER -> t.tok[y]

\* The identifiers and literals, and the member accesses whose property is a
\* plain identifier: each adds one operand.
OperandLeaves(t, x) == {y \in Subtree(t, x) : t.type[y] \in {"Identifier", "Literal"}}

NamedMemberAccesses(t, x) ==
  {y \in Subtree(t, x) : t.type[y] = "MemberExpression" /\ FieldIsIdentifier(t, y)}

\* C21: after a Halstead pass over a subtree, operatorCount, operandCount
\* and the two token sets are what the per-node rules give, summed over the
\* nodes of the subtree: operator expressions add their operator, identifiers
\* and literals an operand, a call `<name>()` only when its callee is a plain
\* identifier, a member access its property name only when the property is a
\* plain identifier, a conditional `?:`, a new expression `new`; no other
\* node adds anything.
C21_CountsAreSumOfNodeRules ==
  hPc = "done" =>
    /\ halsteadData.operatorCount = Cardinality(OperatorNodes(ast, hNode))
    /\ halsteadData.operators = {OperatorOf(ast, y) : y \in OperatorNodes(ast, hNode)}
    /\ halsteadData.operandCount =
         Cardinality(OperandLeaves(ast, hNode)) +
         Cardinality(NamedMemberAccesses(ast, hNode))
    /\ halsteadData.operands =
         {ast.tok[y] : y \in OperandLeaves(ast, hNode)} \cup
         {ast.tok[LastChild(ast, y)] : y \in NamedMemberAccesses(ast, hNode)}

\* The pass over obj.method(x) has ended: no operator (the callee is a member
\* access), and four operands: x, obj, method and method again for the
\* member access.
C21_Witness ==
  /\ hPc = "done"
  /\ ast.n = 7
  /\ ast.type[hNode] = "CallExpression"
  /\ halsteadData.operatorCount = 0
  /\ halsteadData.operandCount = 4
  /\ halsteadData.operands = {"x", "obj", "method"}

\* C30: at every step of a Halstead pass the number of distinct operators is
\* at most operatorCount and the number of distinct operands at most
\* operandCount, so the vocabulary is at most the length; the volume is 0 or
\* at least 2 (2000 thousandths), never strictly between 0 and 1.
C30_DistinctAtMostCounted ==
  /\ Cardinality(halsteadData.operators) <= halsteadData.operatorCount
  /\ Cardinality(halsteadData.operands) <= halsteadData.operandCount
  /\ Vocabulary(halsteadData) <= Length(halsteadData)
  /\ calculateVolume(halsteadData) = 0 \/ calculateVolume(halsteadData) >= 2000
  /\ hPc = "done" => hVolume = 0 \/ hVolume >= 2000

\* In the middle of a pass: two tokens met once each, volume 2 * log2(2) = 2,
\* the least volume that is not 0.
C30_Witness ==
  /\ hPc = "gather"
  /\ hIdx <= Len(Walked(ast, hNode))
  /\ Vocabulary(halsteadData) = 2
  /\ Length(halsteadData) = 2
  /\ calculateVolume(halsteadData) = 2000

(***************************************************************************)
(* C22.  For an acyclic type graph, the depth computed for every type, and *)
(* so the returned maximum, does not depend on the order in which the      *)
(* declarations appear in the file: it is the length of the longest chain  *)
(* of the graph, which is a function of the set of edges alone, whether a  *)
(* child is declared before its parent or after it.  (The i-th declaration *)
(* met is named i, so the runs cover every order of every graph.)          *)
(***************************************************************************)
C22_DepthIndependentOfOrder ==
  (dpc = "done" /\ Acyclic) =>
    /\ \A n \in DeclaredNames : inheritanceMap[n] = ChainDepth(n)
    /\ depthResult = SetMax({ChainDepth(n) : n \in DeclaredNames})
    /\ \A i, j \in 1..Len(decls) :
         \* i extends j only: one level above j, on whichever side j is declared
         Range(decls[i].parents) = {decls[j].name} =>
           inheritanceMap[decls[i].name] = inheritanceMap[decls[j].name] + 1

\* T1 extends T2 and T3, T3 extends T2: the child of the longest chain is
\* declared first and both its parents after it; it ends at depth 3.
C22_Witness ==
  /\ dpc = "done"
  /\ decls = << [name |-> 1, parents |-> <<2, 3>>], [name |-> 2, parents |-> <<>>],
                [name |-> 3, parents |-> <<2>>] >>
  /\ inheritanceMap[1] = 3
  /\ passes > 2

(***************************************************************************)
(* C28.  For an acyclic type graph with N named types, the relaxation loop *)
(* ends after at most N + 1 passes; during the loop every depth is at      *)
(* least 1, never decreases and never exceeds N + 1.                       *)
(***************************************************************************)
C28_RelaxationBounded ==
  /\ []((dpc \in {"relax", "done"} /\ Acyclic) =>
          /\ passes <= Cardinality(DeclaredNames) + 1
          /\ \A n \in DOMAIN inheritanceMap :
               /\ inheritanceMap[n] >= 1
               /\ inheritanceMap[n] <= Cardinality(DeclaredNames) + 1)
  /\ [][(dpc = "relax" /\ Acyclic) =>
          /\ DOMAIN inheritanceMap' = DOMAIN inheritanceMap
          /\ \A n \in DOMAIN inheritanceMap : inheritanceMap'[n] >= inheritanceMap[n]]_vars

\* The bounds are met: three types in a chain that ends at a name the file
\* does not declare, children first; the loop has ended after 4 passes with
\* a depth of 4.
C28_Witness ==
  /\ dpc = "done"
  /\ Acyclic
  /\ Cardinality(DeclaredNames) = 3
  /\ passes = 4
  /\ depthResult = 4

(***************************************************************************)
(* C29.  A parent name that is not declared in the analysed file counts as *)
(* a type of depth 1: a class or interface whose only parent is undeclared *)
(* gets depth 2, and the undeclared name itself is never added to the      *)
(* depth map, so it is never the type that holds the maximum.              *)
(***************************************************************************)
C29_UndeclaredParentCountsAsDepth1 ==
  /\ DOMAIN inheritanceMap = DeclaredNames
  /\ dpc = "done" =>
       /\ \A n \in DeclaredNames :
            (Cardinality(ParentsOf(n)) = 1 /\ ParentsOf(n) \cap DeclaredNames = {})
              => inheritanceMap[n] = 2
       /\ Acyclic => \A n \in DeclaredNames : inheritanceMap[n] = ChainDepth(n)

\* class T1 extends T4 {}, T4 not declared: depth 2, which is the maximum, held
\* by T1.
C29_Witness ==
  /\ dpc = "done"
  /\ decls = << [name |-> 1, parents |-> <<4>>] >>
  /\ inheritanceMap = (1 :> 2)
  /\ depthResult = 2

(***************************************************************************)
(* C23.  The classCount of a file equals the number of class-declaration   *)
(* nodes in its tree.                                                      *)
(* countClasses counts the class expressions as well.                      *)
(***************************************************************************)
ClassNodes(t, kinds) == {x \in Nodes(t) : t.type[x] \in kinds}

RuleData(t, x) ==
  [operators |-> {OperatorOf(t, y) : y \in OperatorNodes(t, x)},
   operands |-> {t.tok[y] : y \in OperandLeaves(t, x)} \cup
                {t.tok[LastChild(t, y)] : y \in NamedMemberAccesses(t, x)},
   operatorCount |-> Cardinality(OperatorNodes(t, x)),
   operandCount |-> Cardinality(OperandLeaves(t, x)) +
                    Cardinality(NamedMemberAccesses(t, x))]

\* The three metrics and the index they give, taken over the subtree of x.
MetricsOver(t, x) ==
  LET lines == Cardinality({y \in Subtree(t, x) : isExecutableLine(t, y)})
      branches == 1 + Cardinality(BranchNodes(t, x))
  IN [linesOfCode |-> lines,
      cyclomaticComplexity |-> branches,
      maintainabilityIndex |-> calculateMaintainabilityIndex(RuleData(t, x), branches, lines)]

MeasuredPart(u) ==
  [linesOfCode |-> u.metrics.linesOfCode,
   cyclomaticComplexity |-> u.metrics.cyclomaticComplexity,
   maintainabilityIndex |-> u.metrics.maintainabilityIndex]

\* The units returned for the file, when its analysis succeeded.
UnitsOfFile == IF apc = "done" /\ code.ok THEN Range(analysis.functions) ELSE {}

C25_EnclosingAtLeastNested ==
  /\ \A F, G \in UnitsOfFile :
       G.node \in Subtree(code.tree, F.node) \ {F.node} =>
         F.metrics.cyclomaticComplexity >= G.metrics.cyclomaticComplexity
  /\ \A u \in UnitsOfFile :
       analysis.fileMetrics.cyclomaticComplexity >= u.metrics.cyclomaticComplexity

\* C25 as the code has it: every function-like node below a unit's node has
\* a unit of its own (but a method's function value, which is the method's
\* unit); a unit G whose function lies in the subtree unit F is measured
\* over (for a method, the function value) has at most F's complexity; and
\* the file-level complexity is at least that of every unit.
C25_MeasuredSubtreeAtLeastNested ==
  /\ \A F \in UnitsOfFile :
       \A x \in Subtree(code.tree, F.node) \ {F.node} :
         (isFunctionLike(code.tree, x) /\ ~IsMethodValue(code.tree, x)) =>
           \E G \in UnitsOfFile : G.node = x
  /\ \A F, G \in UnitsOfFile :
       G.node \in Subtree(code.tree, F.on) \ {F.on} =>
         F.metrics.cyclomaticComplexity >= G.metrics.cyclomaticComplexity
  /\ \A u \in UnitsOfFile :
       analysis.fileMetrics.cyclomaticComplexity >= u.metrics.cyclomaticComplexity

\* A function with a branch nested in another function: both are units, and
\* the branch counts in both and in the file.
C25_Witness ==
  /\ apc = "done"
  /\ \E F, G \in UnitsOfFile :
       /\ G.node \in Subtree(code.tree, F.on) \ {F.on}
       /\ G.metrics.cyclomaticComplexity = 2
       /\ F.metrics.cyclomaticComplexity = 2
  /\ analysis.fileMetrics.cyclomaticComplexity = 2

(***************************************************************************)
(* C26.  A tool call never throws to the server: arguments that fail       *)
(* schema validation, an unreadable file or directory, and any error       *)
(* raised during analysis give a response with isError true and an error   *)
(* text, and a call to a tool name that has no handler gives an isError    *)
(* response `Unknown tool: <name>`.                                        *)
(* The lookup handlers[name] also finds what the object inherits.          *)
(***************************************************************************)
ValidationFails == args.format \notin FormatEnum \cup {"absent"}

ReadFails == ~args.readable

\* The parser rejects the text handed to typescriptAnalyzeFile.
AnalysisRaises ==
  args.tool \in ToolNames /\ ~ValidationFails /\ ~ReadFails /\ ~args.code.ok

\* As stated.
C26_ToolCallNeverThrows ==
  srvPc = "done" =>
    /\ ~srvResponse.thrown
    /\ (reqName \in HandlerNames /\ (ValidationFails \/ ReadFails \/ AnalysisRaises)) =>
         srvResponse.isError /\ srvResponse.text # ""
    /\ reqName \notin HandlerNames =>
         srvResponse.isError /\ srvResponse.text = "Unknown tool: " \o reqName

\* What holds of the three handlers: none throws; the response is an error
\* response exactly when the schema rejects the arguments or the file or
\* directory cannot be read (a text the parser rejects gives the empty
\* analysis, not an error); and a name that nothing is found under gives
\* `Unknown tool: <name>`.
C26_HandlersCatchTheirErrors ==
  srvPc = "done" =>
    /\ reqName \in HandlerNames =>
         /\ ~srvResponse.thrown
         /\ srvResponse.isError <=> (ValidationFails \/ ReadFails)
         /\ AnalysisRaises =>
              toolResult.content[1].analysis = createEmptyAnalysis
    /\ reqName = "no_such_tool" =>
         srvResponse = [thrown |-> FALSE, isError |-> TRUE,
                        text |-> "Unknown tool: no_such_tool"]

(***************************************************************************)
(* C27.  Whatever number of shutdown triggers arrive and in whatever order *)
(* (SIGINT, SIGTERM, uncaughtException, unhandledRejection, exit, a failed *)
(* startup), each registered cleanup handler is invoked at most once; the  *)
(* first trigger runs the cleanup and the process then exits with code 0   *)
(* when every handler resolves and with code 1 when one rejects, and every *)
(* later trigger returns without doing anything.                           *)
(* When 'exit' is the first trigger the process is already ending: the     *)
(* handlers are called, nothing waits for them, and the exit code is the   *)
(* one the process was ending with.                                        *)
(***************************************************************************)
Exited == exitCode # Running

C27_AtMostOnceAndCodeUnlessExitFirst ==
  /\ \A h \in CleanupNames : invoked[h] <= 1
  /\ (Exited /\ firstReason # "exit") =>
       /\ shuttingDown
       /\ \A h \in cleanupHandlers : handlerPromise[h] \in {"resolved", "rejected"}
       /\ exitCode = (IF \E h \in cleanupHandlers : handlerPromise[h] = "rejected"
                        THEN 1 ELSE 0)

\* A trigger that finds the flag set changes nothing of the cleanup.
C27_LaterTriggersDoNothing ==
  [][(shuttingDown /\ triggerCount' # triggerCount)
       => UNCHANGED <<shuttingDown, cleanupHandlers, invoked, handlerPromise, awaiting,
                      firstReason>>]_vars

\* The process ended on 'exit' as its first trigger with a handler that rejects.
C27_ExitFirstReached ==
  Exited /\ firstReason = "exit" /\ invoked["closeTransport"] = 1
    /\ handlerPromise["closeTransport"] = "rejected" /\ exitCode = 0

=============================================================================
